---- MODULE Spec2Model ----
(***************************************************************************)
(* loxInFlux: bridge from a Loxone Miniserver to Telegraf.                 *)
(*                                                                         *)
(* The module models the asyncio tasks of LoxInfluxBridge (app.py), the    *)
(* control-model builder (miniserver.py), the filters (config.py), the      *)
(* poller (grabber.py) and the Telegraf writers (telegraf.py).  Every task  *)
(* runs on one event loop: an action of the model is the code a task runs   *)
(* between two suspension points (await of I/O, of a sleep, of an Event).   *)
(***************************************************************************)
EXTENDS Integers, Sequences, FiniteSets, TLC

\* ------------------------------------------------------------------------
\* Bounds of the model
\* ------------------------------------------------------------------------
\* longest value-state batch the session delivers
MaxBatch == 2
\* latest reading of the nanosecond clock
MaxTime == 1
\* number of session "reconnected" events
MaxReconnects == 1
\* most "output<n>" entries of a text message
MaxOutputs == 1

\* ------------------------------------------------------------------------
\* Small helpers for Python dicts (functions with a finite domain)
\* ------------------------------------------------------------------------
EmptyDict == << >>

Put(d, k, v) == (k :> v) @@ d

Del(d, k) == [x \in (DOMAIN d) \ {k} |-> d[x]]

\* dict.update(other): the entries of other win
Update(d, other) == other @@ d

\* Optional values are sets with at most one element: {} is Python's None
NoneValue == {}

Some(x) == {x}

\* ------------------------------------------------------------------------
\* The structural document: a sequence of <C Type=...> elements
\* ------------------------------------------------------------------------
Co(U, K) == [U |-> U, K |-> K]

Elem(U, Type, Title, Visu, VisuPwd, linkC, cos) ==
    [U |-> U, Type |-> Type, Title |-> Title, Visu |-> Visu,
     VisuPwd |-> VisuPwd, linkC |-> linkC, Co |-> cos]

\* str.upper() on the type names that occur
Upper(t) ==
    CASE t = "Switch" -> "SWITCH"
      [] t = "switch" -> "SWITCH"
      [] t = "InfoOnlyAnalog" -> "INFOONLYANALOG"
      [] t = "VirtualTextIn" -> "VIRTUALTEXTIN"
      [] t = "User" -> "USER"
      [] OTHER -> t

SYS_BLACKLIST == {"VIRTUALTEXTIN"}

\* str(x).strip().lower() in ("1", "true", "yes")
TruthyStrings == {"1", "true", "yes"}

\* point_websocket: the line-protocol prefix up to and including "<field>="
PointWebsocket(obj, sub, fieldkey) ==
    [measurement |-> obj.Title, uuid |-> obj.U, type |-> obj.Type,
     visu |-> obj.Visu, source |-> "websocket", subuuid |-> sub,
     field |-> fieldkey]

\* the descriptor of a top-level control
ControlDescriptor(obj) ==
    [fieldkey |-> "Default",
     point_websocket |-> PointWebsocket(obj, "", "Default"),
     type |-> Upper(obj.Type),
     visu |-> obj.Visu \in TruthyStrings,
     VisuPwd |-> obj.VisuPwd \in TruthyStrings,
     parent_uuid |-> NoneValue]

\* the descriptor of a <Co> sub-control (it has no visu and no VisuPwd key;
\* the model keeps the fields and sets them FALSE)
SubControlDescriptor(obj, co) ==
    [fieldkey |-> co.K,
     point_websocket |-> PointWebsocket(obj, co.U, co.K),
     type |-> Upper(obj.Type),
     visu |-> FALSE,
     VisuPwd |-> FALSE,
     parent_uuid |-> Some(obj.U)]

\* for co in obj.findall("Co"): ...
RECURSIVE ExtractCo(_, _, _, _)
ExtractCo(obj, j, controls, visu_controls) ==
    IF j > Len(obj.Co) THEN [controls |-> controls, visu_controls |-> visu_controls]
    ELSE LET co == obj.Co[j]
             d == SubControlDescriptor(obj, co)
         IN ExtractCo(obj, j + 1, Put(controls, co.U, d),
                      IF obj.Visu \in TruthyStrings
                      THEN Put(visu_controls, co.U, d) ELSE visu_controls)

\* for uid in linkCofVisuControll: move uid from non_visu_controls to visu_controls
MoveLinked(links, visu_controls, non_visu_controls) ==
    LET moved == links \cap DOMAIN non_visu_controls
    IN [visu_controls |-> [u \in moved |-> non_visu_controls[u]] @@ visu_controls,
        non_visu_controls |-> [u \in (DOMAIN non_visu_controls) \ moved |->
                                  non_visu_controls[u]]]

\* an iteration that does not know SYS_BLACKLIST
ExtractOneNoSys(obj, type_blacklist, acc) ==
    IF Upper(obj.Type) \in type_blacklist THEN acc
    ELSE LET d == ControlDescriptor(obj)
             is_visu == obj.Visu \in TruthyStrings
             links == IF is_visu THEN acc.links \cup obj.linkC ELSE acc.links
             visu1 == IF is_visu THEN Put(acc.visu_controls, obj.U, d)
                      ELSE acc.visu_controls
             non1 == IF is_visu THEN acc.non_visu_controls
                     ELSE Put(acc.non_visu_controls, obj.U, d)
             cos == ExtractCo(obj, 1, Put(acc.controls, obj.U, d), visu1)
             mv == MoveLinked(links, cos.visu_controls, non1)
         IN [controls |-> cos.controls,
             visu_controls |-> mv.visu_controls,
             non_visu_controls |-> mv.non_visu_controls,
             links |-> links]

\* one iteration of the loop over root.findall('.//C[@Type]')
ExtractOne(obj, type_blacklist, acc) ==
    IF Upper(obj.Type) \in type_blacklist THEN acc
    ELSE LET d == ControlDescriptor(obj)
             is_visu == obj.Visu \in TruthyStrings
             links == IF is_visu THEN acc.links \cup obj.linkC ELSE acc.links
             controls1 == Put(acc.controls, obj.U, d)
             visu1 == IF is_visu THEN Put(acc.visu_controls, obj.U, d)
                      ELSE acc.visu_controls
             non1 == IF is_visu \/ Upper(obj.Type) \in SYS_BLACKLIST
                     THEN acc.non_visu_controls
                     ELSE Put(acc.non_visu_controls, obj.U, d)
             cos == ExtractCo(obj, 1, controls1, visu1)
             mv == MoveLinked(links, cos.visu_controls, non1)
         IN [controls |-> cos.controls,
             visu_controls |-> mv.visu_controls,
             non_visu_controls |-> mv.non_visu_controls,
             links |-> links]

RECURSIVE ExtractLoop(_, _, _, _)
ExtractLoop(xml, i, type_blacklist, acc) ==
    IF i > Len(xml) THEN acc
    ELSE ExtractLoop(xml, i + 1, type_blacklist, ExtractOne(xml[i], type_blacklist, acc))

\* extractControls(root, lox_category_room) -> (controls, visu, non_visu)
extractControls(xml, type_blacklist) ==
    LET r == ExtractLoop(xml, 1, type_blacklist,
                         [controls |-> EmptyDict, visu_controls |-> EmptyDict,
                          non_visu_controls |-> EmptyDict, links |-> {}])
    IN [controls |-> r.controls, visu_controls |-> r.visu_controls,
        non_visu_controls |-> r.non_visu_controls]

\* ------------------------------------------------------------------------
\* FilterConfig (config.py)
\* ------------------------------------------------------------------------
\* __post_init__: the type lists become sets of uppercased names, the uuid
\* lists become sets
FilterConfig(tb, tw, ub, uw) ==
    [type_blacklist |-> {Upper(t) : t \in tb}, type_whitelist |-> {Upper(t) : t \in tw},
     uuid_blacklist |-> ub, uuid_whitelist |-> uw]

\* "uuid in self.uuid_whitelist": the lists of the configuration hold str, the
\* registries are keyed by bytes (str(obj.get("U")).encode('utf-8')), and in
\* Python a str never equals a bytes
StrEqualsBytes(s, b) == FALSE

\* a type axis on which the blacklist also counts next to a whitelist
BlacklistAlways(f, control_type, uuid) ==
    /\ f.type_whitelist # {} => Upper(control_type) \in f.type_whitelist
    /\ Upper(control_type) \notin f.type_blacklist
    /\ IF f.uuid_whitelist # {} THEN \E w \in f.uuid_whitelist : StrEqualsBytes(w, uuid)
       ELSE ~\E w \in f.uuid_blacklist : StrEqualsBytes(w, uuid)

should_include_control(f, control_type, uuid) ==
    IF f.type_whitelist # {} /\ Upper(control_type) \notin f.type_whitelist THEN FALSE
    ELSE IF f.type_whitelist = {} /\ Upper(control_type) \in f.type_blacklist THEN FALSE
    ELSE IF f.uuid_whitelist # {} THEN \E w \in f.uuid_whitelist : StrEqualsBytes(w, uuid)
    ELSE ~\E w \in f.uuid_blacklist : StrEqualsBytes(w, uuid)

\* the nested should_include(uuid, control) of filter_controls
should_include(f, controls, uuid) ==
    LET control == controls[uuid]
    IN /\ should_include_control(f, control.type, uuid)
       /\ control.parent_uuid # NoneValue =>
            \E p \in control.parent_uuid :
                /\ p \in DOMAIN controls
                /\ should_include_control(f, controls[p].type, p)

filter_controls(f, controls) ==
    [u \in {x \in DOMAIN controls : should_include(f, controls, x)} |-> controls[u]]

\* ------------------------------------------------------------------------
\* Configuration (config.toml) of the modelled installation
\* ------------------------------------------------------------------------
config_type_blacklist == {"USER"}

config_websocket_filter == FilterConfig({}, {}, {}, {})

config_grabber_filter == FilterConfig({}, {}, {}, {})

\* GeneralConfig.rounding_precision
rounding_precision == 5

\* the precision LoxInfluxBridge.__init__ uses when round_floats is off
full_precision == 15

\* Semaphore(10) of LoxoneGrabber.__init__
SemaphoreLimit == 10

\* ------------------------------------------------------------------------
\* Documents of the modelled Miniserver
\* ------------------------------------------------------------------------
Doc(name, lastModified, xml) == [name |-> name, lastModified |-> lastModified, xml |-> xml]

\* a is visible, b is not and owns the sub-control c
DocA ==
    Doc("A", 1,
        << Elem("a", "Switch", "Light", "true", "", {}, << >>),
           Elem("b", "InfoOnlyAnalog", "Meter", "", "", {}, << Co("c", "total") >>) >>)

\* the same controls after a change of the configuration: b is visible, a is not
DocB ==
    Doc("B", 2,
        << Elem("a", "Switch", "Light", "false", "true", {}, << >>),
           Elem("b", "InfoOnlyAnalog", "Meter", "1", "", {}, << Co("c", "total") >>) >>)

Docs == {DocA, DocB}

\* uuids that value-state batches and text messages carry; z is in no document
EventUuids == {"a", "b", "c", "z"}

\* ------------------------------------------------------------------------
\* Values and their formatting
\* ------------------------------------------------------------------------
\* a value of a value-state batch: a float (v thousandths) or a str
FloatValue(v) == [t |-> "float", v |-> v]

StrValue(v) == [t |-> "str", v |-> v]

PushValues == {FloatValue(5000), StrValue(5)}

\* format() accepts the 'f' format code for numbers only
CanFormat(value) == value.t = "float"

\* "{:.<places>f}".format(value): the integer part and <places> decimals
FormatFixed(places, value) ==
    LET scaled == IF places >= 3 THEN value.v
                  ELSE (value.v + 5 * 10^(2 - places)) \div 10^(3 - places)
        kept == IF places >= 3 THEN 3 ELSE places
    IN [int |-> scaled \div 10^kept,
        frac |-> [k \in 1..places |->
                     IF k <= kept THEN (scaled \div 10^(kept - k)) % 10 ELSE 0]]

\* self.formatter of LoxInfluxBridge.__init__
FormatterPlaces(rf) == IF rf THEN rounding_precision ELSE full_precision

\* b"".join([point_websocket, formatter(value).encode(), b" " + timestamp])
PushPoint(template, places, value, ts) ==
    [template |-> template, value |-> FormatFixed(places, value),
     sep |-> " ", timestamp |-> ts]

\* the items of a dict have distinct keys
ValueStateMessages ==
    {m \in UNION {[1..n -> EventUuids \X PushValues] : n \in 1..MaxBatch} :
        \A i, j \in DOMAIN m : i # j => m[i][1] # m[j][1]}

\* the batches delivered in the life of the bridge: one float per batch
BridgeValueMessages == {<< <<u, FloatValue(5000)>> >> : u \in EventUuids}

\* ------------------------------------------------------------------------
\* Text messages (responses to the poller's commands)
\* ------------------------------------------------------------------------
\* one "output<key>" entry: name, nr and value are optional keys of the dict
Output(key, name, nr, value) == [key |-> key, name |-> name, nr |-> nr, value |-> value]

\* the dict a text message maps its uuid to
Payload(value, outputs) == [value |-> value, outputs |-> outputs]

IntStrings == {"12", "3"}

FloatStrings == {"3.14159"}

\* get_numeric_value_if_possible: int(value), else float(value) (rounded when
\* round_floats is set), else the value itself
get_numeric_value_if_possible(value, rf) ==
    IF value \in IntStrings THEN [t |-> "int", raw |-> value, places |-> NoneValue]
    ELSE IF value \in FloatStrings
         THEN [t |-> "float", raw |-> value,
               places |-> IF rf THEN Some(rounding_precision) ELSE NoneValue]
         ELSE [t |-> "str", raw |-> value, places |-> NoneValue]

\* str(nr) for the output numbers that occur
NrStr(n) == CASE n = 0 -> "0" [] n = 1 -> "1" [] OTHER -> "n"

\* Python truthiness of value.get("name") and value.get("nr")
TruthyName(name) == name # NoneValue /\ name # Some("")

TruthyNr(nr) == nr # NoneValue /\ nr # Some(0)

\* str(name if name else nr if nr else b'Subdefault')
OutputFieldName(o) ==
    IF TruthyName(o.name) THEN CHOOSE n \in o.name : TRUE
    ELSE IF TruthyNr(o.nr) THEN NrStr(CHOOSE n \in o.nr : TRUE)
    ELSE "b'Subdefault'"

\* influxdb_client.Point as the builder makes it: deepcopy(base_point).field(key, "[valueplaceholder]")
NewPoint(fieldkey) ==
    [source |-> "[sourceplaceholder]",
     fields |-> (fieldkey :> [t |-> "str", raw |-> "[valueplaceholder]", places |-> NoneValue]),
     time |-> NoneValue]

\* the Points of one build, one per descriptor
NewPoints(controls) == [u \in DOMAIN controls |-> NewPoint(controls[u].fieldkey)]

\* Point.tag / Point.field / Point.time change the Point and return it
PointTag(pt, v) == [pt EXCEPT !.source = v]

PointField(pt, k, v) == [pt EXCEPT !.fields = Put(pt.fields, k, v)]

PointTime(pt, ts) == [pt EXCEPT !.time = Some(ts)]

\* the loop over message.items() of handle_text_messages
RECURSIVE OutputLoop(_, _, _, _, _)
OutputLoop(outputs, i, pt, rf, ts) ==
    IF i > Len(outputs) THEN pt
    ELSE LET o == outputs[i]
         IN OutputLoop(outputs, i + 1,
                       IF o.value # NoneValue
                       THEN PointTime(PointField(pt, OutputFieldName(o),
                                get_numeric_value_if_possible(CHOOSE v \in o.value : TRUE, rf)),
                                ts)
                       ELSE pt,
                       rf, ts)

\* Point.to_line_protocol() of the Point of uuid
LineProtocol(uuid, pt) == [uuid |-> uuid, source |-> pt.source, fields |-> pt.fields, time |-> pt.time]

\* handle_text_messages on a one-key dict whose uuid is in grabber_controls:
\* the Point after the call, the line written and the exception raised
TextMessageEffect(uuid, payload, pt, rf, ts) ==
    LET tagged == PointTag(pt, "grabber")
    IN IF payload.value = NoneValue
       THEN [point |-> tagged, writes |-> << >>, raised |-> "KeyError"]
       ELSE LET p1 == PointField(tagged, "Default",
                        get_numeric_value_if_possible(CHOOSE v \in payload.value : TRUE, rf))
                p2 == IF \E i \in DOMAIN payload.outputs : payload.outputs[i].key = 0
                      THEN OutputLoop(payload.outputs, 1, p1, rf, ts) ELSE p1
            IN [point |-> p2, writes |-> << LineProtocol(uuid, p2) >>, raised |-> ""]

\* ------------------------------------------------------------------------
\* State
\* ------------------------------------------------------------------------
VARIABLES
    \* LoxInfluxBridge
    controls, websocket_controls, grabber_controls,
    ws_client, ws_client_initialized, grabber_controls_updated,
    message_callbacks, event_callbacks,
    \* config.general
    round_floats, grabberEnabled,
    \* the Miniserver and the clock
    remoteDoc, wsState, now,
    \* miniserver.py: _loxapp3_cache_json_last_modified, the lru_cache of
    \* getControlsFromConfigXML (the Points it holds), the document of the last swap
    cacheLastModified, points, builtFrom,
    \* the config fetch + build tasks: 0 is the one of main(), the others are
    \* created by udpate_controls
    gatherPc, gatherDoc, updateWaiters, reconnects,
    \* the other coroutines of main()
    pcTelegraf, pcWs, pcInitGrabber,
    \* LoxoneGrabber
    pcPoller, semaphore, pollTasks,
    \* what the last message handler call did
    lastEvent,
    \* the Telegraf writer, the calls in progress on it, the calls made so far
    writer, frames, callsMade,
    \* the process: run_bridge, the event loops of main(), shutdown
    proc,
    \* one call of load_miniserver_config seen step by step, with the cache files
    fetch,
    \* one application of a function of the program to an input
    calc

regVars == << controls, websocket_controls, grabber_controls, builtFrom >>

flagVars == << ws_client, ws_client_initialized, grabber_controls_updated,
               message_callbacks, event_callbacks >>

cfgVars == << round_floats, grabberEnabled >>

envVars == << remoteDoc, wsState, now >>

gatherVars == << cacheLastModified, gatherPc, gatherDoc, updateWaiters, reconnects >>

startVars == << pcTelegraf, pcWs, pcInitGrabber >>

pollVars == << pcPoller, semaphore, pollTasks >>

histVars == << lastEvent, points >>

writerVars == << writer, frames, callsMade >>

procVars == << proc >>

labVars == << fetch, calc >>

bridgeVars == << regVars, flagVars, cfgVars, envVars, gatherVars, startVars, pollVars, histVars,
                procVars, labVars >>

Registries == [controls |-> controls, websocket_controls |-> websocket_controls,
               grabber_controls |-> grabber_controls]

GatherIds == 0..MaxReconnects

\* LoxInfluxBridge.__init__ and the module globals, main() about to gather
\* the config fetch + build tasks created by udpate_controls that have not ended
RebuildsInProgress ==
    {t \in GatherIds \ {0} : gatherPc[t] \in {"created", "fetching", "persisting"}}

\* lastEvent before any handler has run
NoEvent ==
    [kind |-> "none", message |-> << >>,
     before |-> [controls |-> EmptyDict, websocket_controls |-> EmptyDict,
                 grabber_controls |-> EmptyDict],
     ts |-> 0, rebuilds |-> {}, writes |-> << >>, raised |-> ""]

\* main() has created the bridge and run_bridge has created main_task and is
\* at "await shutdown_event.wait()"
ProcInit ==
    [pc |-> "waiting", main_task |-> "gathering", loop |-> 1, flag |-> FALSE,
     writer_closed |-> FALSE, stops |-> 0, cancelled |-> {}, error |-> "none"]

\* no call of load_miniserver_config has been made: the data directory holds
\* no cache file (0: no file, -1: a file cut short, else the version it holds)
FetchIdle ==
    [pc |-> "idle", n |-> 0, use_cache |-> FALSE, persist |-> FALSE, calls |-> 0,
     remote |-> 1, f |-> << >>, config_content |-> << >>, result |-> "none", error |-> "none",
     disk |-> [xml |-> 0, json |-> 0], before |-> [disk |-> [xml |-> 0, json |-> 0], ts |-> {}]]

\* no function is applied
CalcIdle == [fn |-> "none"]

LabParked ==
    /\ proc = ProcInit
    /\ fetch = FetchIdle
    /\ calc = CalcIdle

BridgeInit ==
    /\ controls = EmptyDict
    /\ websocket_controls = EmptyDict
    /\ grabber_controls = EmptyDict
    /\ builtFrom = ""
    /\ ws_client = NoneValue
    /\ ws_client_initialized = FALSE
    /\ grabber_controls_updated = FALSE
    /\ message_callbacks = {}
    /\ event_callbacks = FALSE
    /\ round_floats = FALSE
    /\ grabberEnabled = TRUE
    /\ remoteDoc \in Docs
    /\ wsState = "DISCONNECTED"
    /\ now = 0
    /\ cacheLastModified = NoneValue
    /\ points = EmptyDict
    /\ gatherPc = [t \in GatherIds |-> IF t = 0 THEN "created" ELSE "none"]
    /\ gatherDoc = [t \in GatherIds |-> NoneValue]
    /\ updateWaiters = 0
    /\ reconnects = 0
    /\ pcTelegraf = "start"
    /\ pcWs = "start"
    /\ pcInitGrabber = "start"
    /\ pcPoller = "none"
    /\ semaphore = SemaphoreLimit
    /\ pollTasks = EmptyDict
    /\ lastEvent = NoEvent

\* ------------------------------------------------------------------------
\* Config fetch + build (init_gather_controls_from_miniserver)
\* ------------------------------------------------------------------------
\* the cache check of load_miniserver_config (use_cache is left at its default):
\*   use_cache and _loxapp3_cache_json_last_modified
\*             and _loxapp3_cache_json_last_modified >= get_loxapp3_json_last_modified()
\* get_loxapp3_json_last_modified is a coroutine function and is not awaited:
\* the comparison of a datetime with a coroutine object raises TypeError.
CacheCheck(cached) == IF cached # NoneValue THEN "TypeError" ELSE "miss"

\* getControlsFromConfigXML(config_xml) and the two filter_controls calls
BuildRegistries(doc) ==
    LET r == extractControls(doc.xml, config_type_blacklist)
    IN [controls |-> r.controls,
        websocket_controls |-> filter_controls(config_websocket_filter, r.visu_controls),
        grabber_controls |-> filter_controls(config_grabber_filter, r.non_visu_controls)]

\* the swap as it would be seen by a task that ran after websocket_controls.clear()
SwapSuspended(old, new) ==
    [controls |-> Update(EmptyDict, new.controls),
     websocket_controls |-> EmptyDict,
     grabber_controls |-> old.grabber_controls]

\* controls.clear(); controls.update(new_controls); ... for the three dicts,
\* with no suspension point between the six statements
SwapRegistries(old, new) ==
    [controls |-> Update(EmptyDict, new.controls),
     websocket_controls |-> Update(EmptyDict, new.websocket_controls),
     grabber_controls |-> Update(EmptyDict, new.grabber_controls)]

\* a rebuild that empties the registries before it loads the configuration
GatherStartClears(t) ==
    /\ gatherPc[t] = "created"
    /\ gatherPc' = [gatherPc EXCEPT ![t] =
                       IF CacheCheck(cacheLastModified) = "TypeError"
                       THEN "TypeError" ELSE "fetching"]
    /\ controls' = EmptyDict
    /\ websocket_controls' = EmptyDict
    /\ grabber_controls' = EmptyDict
    /\ UNCHANGED << writerVars, procVars, labVars, builtFrom, flagVars, cfgVars, envVars, cacheLastModified, gatherDoc,
                    updateWaiters, reconnects, startVars, pollVars, histVars >>

\* a task starts load_miniserver_config: the cache check, then the FTP connect
GatherStart(t) ==
    /\ gatherPc[t] = "created"
    /\ gatherPc' = [gatherPc EXCEPT ![t] =
                       IF CacheCheck(cacheLastModified) = "TypeError"
                       THEN "TypeError" ELSE "fetching"]
    /\ UNCHANGED << writerVars, procVars, labVars, regVars, flagVars, cfgVars, envVars, cacheLastModified, gatherDoc,
                    updateWaiters, reconnects, startVars, pollVars, histVars >>

\* the archive is listed, downloaded, decompressed and verified
GatherDownload(t) ==
    /\ gatherPc[t] = "fetching"
    /\ gatherPc' = [gatherPc EXCEPT ![t] = "persisting"]
    /\ gatherDoc' = [gatherDoc EXCEPT ![t] = Some(remoteDoc)]
    /\ UNCHANGED << writerVars, procVars, labVars, regVars, flagVars, cfgVars, envVars, cacheLastModified,
                    updateWaiters, reconnects, startVars, pollVars, histVars >>

\* the transfer or a cache file write fails: the exception leaves the task
GatherFail(t) ==
    /\ gatherPc[t] \in {"fetching", "persisting"}
    /\ gatherPc' = [gatherPc EXCEPT ![t] = "Exception"]
    /\ UNCHANGED << writerVars, procVars, labVars, regVars, flagVars, cfgVars, envVars, cacheLastModified, gatherDoc,
                    updateWaiters, reconnects, startVars, pollVars, histVars >>

\* load_miniserver_config returns; build, filter, swap, set the flag
GatherComplete(t) ==
    /\ gatherPc[t] = "persisting"
    /\ \E doc \in gatherDoc[t] :
          LET new == BuildRegistries(doc)
              swapped == SwapRegistries(Registries, new)
          IN /\ cacheLastModified' = Some(doc.lastModified)
             /\ controls' = swapped.controls
             /\ websocket_controls' = swapped.websocket_controls
             /\ grabber_controls' = swapped.grabber_controls
             /\ builtFrom' = doc.name
             /\ points' = IF doc.name \in DOMAIN points THEN points
                          ELSE Put(points, doc.name, NewPoints(new.controls))
    /\ grabber_controls_updated' = TRUE
    /\ gatherPc' = [gatherPc EXCEPT ![t] = "done"]
    /\ UNCHANGED << writerVars, procVars, labVars, ws_client, ws_client_initialized, message_callbacks, event_callbacks,
                    cfgVars, envVars, gatherDoc, updateWaiters, reconnects,
                    startVars, pollVars, lastEvent >>

\* ------------------------------------------------------------------------
\* The other three operations main() gathers
\* ------------------------------------------------------------------------
\* telegraf.initialize(): the writer connects or raises (the writers are
\* modelled step by step under SpecWriter)
TelegrafInitialize ==
    /\ pcTelegraf = "start"
    /\ \E ok \in BOOLEAN : pcTelegraf' = IF ok THEN "done" ELSE "raised"
    /\ UNCHANGED << writerVars, procVars, labVars, regVars, flagVars, cfgVars, envVars, gatherVars, pcWs, pcInitGrabber,
                    pollVars, histVars >>

\* init_websocket_connection up to "await self.ws_client.connect(...)"
WsBegin ==
    /\ pcWs = "start"
    /\ ws_client' = Some("loxwebsocket")
    /\ pcWs' = "connecting"
    /\ UNCHANGED << writerVars, procVars, labVars, regVars, ws_client_initialized, grabber_controls_updated,
                    message_callbacks, event_callbacks, cfgVars, envVars, gatherVars,
                    pcTelegraf, pcInitGrabber, pollVars, histVars >>

\* connect returned: register the two callbacks, set the flag, wait for shutdown
WsConnected ==
    /\ pcWs = "connecting"
    /\ message_callbacks' = message_callbacks \cup {2}
    /\ event_callbacks' = TRUE
    /\ ws_client_initialized' = TRUE
    /\ wsState' = "CONNECTED"
    /\ pcWs' = "waiting"
    /\ UNCHANGED << writerVars, procVars, labVars, regVars, ws_client, grabber_controls_updated, cfgVars, remoteDoc, now,
                    gatherVars, pcTelegraf, pcInitGrabber, pollVars, histVars >>

\* connect raised LoxoneException: RuntimeError, and the finally clause stops the client
WsConnectFailed ==
    /\ pcWs = "connecting"
    /\ wsState' = "STOPPED"
    /\ pcWs' = "raised"
    /\ UNCHANGED << writerVars, procVars, labVars, regVars, flagVars, cfgVars, remoteDoc, now, gatherVars,
                    pcTelegraf, pcInitGrabber, pollVars, histVars >>

\* a barrier that would open as soon as one of the two tasks is done
BarrierAny == ws_client_initialized \/ grabber_controls_updated

\* asyncio.wait([ws_init_task, grabber_controls_task], return_when=ALL_COMPLETED)
BarrierOpen == ws_client_initialized /\ grabber_controls_updated

\* init_grabber up to the barrier.  gather() starts its coroutines in the order
\* given, so init_websocket_connection has set ws_client before this runs.
InitGrabberBegin ==
    /\ pcInitGrabber = "start"
    /\ pcWs # "start"
    /\ IF ws_client = NoneValue
       THEN /\ pcInitGrabber' = "AttributeError"
            /\ UNCHANGED message_callbacks
       ELSE /\ pcInitGrabber' = "barrier"
            /\ message_callbacks' = message_callbacks \cup {0}
    /\ UNCHANGED << writerVars, procVars, labVars, regVars, ws_client, ws_client_initialized, grabber_controls_updated,
                    event_callbacks, cfgVars, envVars, gatherVars, pcTelegraf, pcWs,
                    pollVars, histVars >>

\* the barrier opens: create the poller task
InitGrabberBarrier ==
    /\ pcInitGrabber = "barrier"
    /\ BarrierOpen
    /\ pcInitGrabber' = "done"
    /\ pcPoller' = "created"
    /\ UNCHANGED << writerVars, procVars, labVars, regVars, flagVars, cfgVars, envVars, gatherVars, pcTelegraf, pcWs,
                    semaphore, pollTasks, histVars >>

\* ------------------------------------------------------------------------
\* The poller (LoxoneGrabber)
\* ------------------------------------------------------------------------
\* the items of a dict in its iteration order
RECURSIVE Items(_)
Items(keys) ==
    IF keys = {} THEN << >>
    ELSE LET k == CHOOSE x \in keys : TRUE IN << k >> \o Items(keys \ {k})

\* the place of key k in that order
ItemPosition(keys, k) == CHOOSE i \in 1..Cardinality(keys) : Items(keys)[i] = k

\* the poll commands handed to the session and not yet returned
InFlight == {u \in DOMAIN pollTasks : pollTasks[u].st = "sending"}

\* a send_command task that would take the semaphore although it is exhausted
SemaphoreIgnored(sem) == TRUE

\* "async with self.semaphore": the task goes on when the semaphore is free
SemaphoreFree(sem) == sem > 0

\* a start that does not read config.general.grabber
GrabberStartAnyway ==
    /\ pcPoller = "created"
    /\ pcPoller' = "loop"
    /\ UNCHANGED << writerVars, procVars, labVars, regVars, flagVars, cfgVars, envVars, gatherVars, startVars,
                    semaphore, pollTasks, histVars >>

\* LoxoneGrabber.start up to the loop
GrabberStart ==
    /\ pcPoller = "created"
    /\ pcPoller' = IF ~grabberEnabled THEN "returned" ELSE "loop"
    /\ UNCHANGED << writerVars, procVars, labVars, regVars, flagVars, cfgVars, envVars, gatherVars, startVars,
                    semaphore, pollTasks, histVars >>

\* _grab_all_values up to "await asyncio.gather(*tasks)": one send_command
\* task per uuid of grabber_controls
GrabAllValues ==
    /\ pcPoller = "loop"
    /\ IF wsState # "CONNECTED"
       THEN /\ pcPoller' = "sleeping"
            /\ pollTasks' = EmptyDict
       ELSE /\ pollTasks' = [u \in DOMAIN grabber_controls |->
                                [st |-> "created", secured |-> grabber_controls[u].VisuPwd,
                                 pos |-> ItemPosition(DOMAIN grabber_controls, u)]]
            /\ pcPoller' = IF DOMAIN grabber_controls = {} THEN "sleeping" ELSE "gathering"
    /\ UNCHANGED << writerVars, procVars, labVars, regVars, flagVars, cfgVars, envVars, gatherVars, startVars,
                    semaphore, histVars >>

\* send_command takes the semaphore and hands the command to the session.
\* The tasks run in the order they were created, and the semaphore wakes its
\* waiters first-in first-out.
SendCommandAcquire(u) ==
    /\ u \in DOMAIN pollTasks
    /\ pollTasks[u].st = "created"
    /\ \A v \in DOMAIN pollTasks : pollTasks[v].pos < pollTasks[u].pos => pollTasks[v].st # "created"
    /\ SemaphoreFree(semaphore)
    /\ semaphore' = semaphore - 1
    /\ pollTasks' = [pollTasks EXCEPT ![u].st = "sending"]
    /\ UNCHANGED << writerVars, procVars, labVars, regVars, flagVars, cfgVars, envVars, gatherVars, startVars,
                    pcPoller, histVars >>

\* an except clause that would let the exception pass
ExceptNothing(exc) == FALSE

\* "except Exception as e" of send_command: every exception the session raises
\* is caught and logged
ExceptException(exc) == TRUE

\* what the session does with a command: it returns, or, while its connection
\* is down, it may raise
SendOutcomes == IF wsState = "CONNECTED" THEN {"ok"} ELSE {"ok", "LoxoneException"}

\* the session returns or raises: the task ends ("done", "failed" when the
\* exception was caught, "raised" when it left send_command) and "async with"
\* releases the semaphore
SendCommandReturn(u) ==
    /\ u \in DOMAIN pollTasks
    /\ pollTasks[u].st = "sending"
    /\ \E out \in SendOutcomes :
          pollTasks' = [pollTasks EXCEPT ![u].st =
                           IF out = "ok" THEN "done"
                           ELSE IF ExceptException(out) THEN "failed" ELSE "raised"]
    /\ semaphore' = semaphore + 1
    /\ UNCHANGED << writerVars, procVars, labVars, regVars, flagVars, cfgVars, envVars, gatherVars, startVars,
                    pcPoller, histVars >>

\* gather(*tasks) returns when every task has ended, and raises as soon as one
\* task has raised: sleep for grabber_interval, or log and sleep for 5 seconds
GrabCycleDone ==
    /\ pcPoller = "gathering"
    /\ \/ \A u \in DOMAIN pollTasks : pollTasks[u].st \in {"done", "failed"}
       \/ \E u \in DOMAIN pollTasks : pollTasks[u].st = "raised"
    /\ pcPoller' = IF \E u \in DOMAIN pollTasks : pollTasks[u].st = "raised"
                   THEN "backoff" ELSE "sleeping"
    /\ UNCHANGED << writerVars, procVars, labVars, regVars, flagVars, cfgVars, envVars, gatherVars, startVars,
                    semaphore, pollTasks, histVars >>

\* an exception leaves _grab_all_values before its tasks are made: the
\* "except Exception" of the loop logs it and sleeps for 5 seconds
CycleRaises ==
    /\ pcPoller = "loop"
    /\ pcPoller' = "backoff"
    /\ UNCHANGED << writerVars, procVars, labVars, regVars, flagVars, cfgVars, envVars, gatherVars, startVars,
                    semaphore, pollTasks, histVars >>

\* a loop that gives up after an error: the backoff is followed by a return
GrabberWakeEnds ==
    /\ pcPoller \in {"sleeping", "backoff"}
    /\ pcPoller' = IF pcPoller = "backoff" THEN "returned" ELSE "loop"
    /\ UNCHANGED << writerVars, procVars, labVars, regVars, flagVars, cfgVars, envVars, gatherVars, startVars,
                    semaphore, pollTasks, histVars >>

\* the sleep ends; back to the loop condition
GrabberWake ==
    /\ pcPoller \in {"sleeping", "backoff"}
    /\ pcPoller' = "loop"
    /\ UNCHANGED << writerVars, procVars, labVars, regVars, flagVars, cfgVars, envVars, gatherVars, startVars,
                    semaphore, pollTasks, histVars >>

\* ------------------------------------------------------------------------
\* Message handlers
\* ------------------------------------------------------------------------
\* a loop in which a uuid that is in no registry ends the handler
RECURSIVE ValueStatesLoopUnknownRaises(_, _, _, _, _, _, _)
ValueStatesLoopUnknownRaises(message, i, ctrls, wsc, places, ts, writes) ==
    IF i > Len(message)
    THEN [websocket_controls |-> wsc, writes |-> writes, raised |-> ""]
    ELSE LET uuid == message[i][1]
             value == message[i][2]
             wsc1 == IF uuid \in DOMAIN wsc THEN wsc ELSE Put(wsc, uuid, ctrls[uuid])
         IN IF uuid \notin DOMAIN wsc \cup DOMAIN ctrls
            THEN [websocket_controls |-> wsc, writes |-> writes, raised |-> "KeyError"]
            ELSE IF CanFormat(value)
                 THEN ValueStatesLoopUnknownRaises(message, i + 1, ctrls, wsc1, places, ts,
                          Append(writes, PushPoint(wsc1[uuid].point_websocket,
                                                   places, value, ts)))
                 ELSE [websocket_controls |-> wsc1, writes |-> writes,
                       raised |-> "ValueError"]

\* the loop of handle_value_states from item i on: KeyError is caught,
\* any other exception leaves the handler
RECURSIVE ValueStatesLoop(_, _, _, _, _, _, _)
ValueStatesLoop(message, i, ctrls, wsc, places, ts, writes) ==
    IF i > Len(message)
    THEN [websocket_controls |-> wsc, writes |-> writes, raised |-> ""]
    ELSE LET uuid == message[i][1]
             value == message[i][2]
         IN IF uuid \in DOMAIN wsc
            THEN IF CanFormat(value)
                 THEN ValueStatesLoop(message, i + 1, ctrls, wsc, places, ts,
                          Append(writes, PushPoint(wsc[uuid].point_websocket, places, value, ts)))
                 ELSE [websocket_controls |-> wsc, writes |-> writes, raised |-> "ValueError"]
            ELSE IF uuid \in DOMAIN ctrls
                 THEN LET wsc1 == Put(wsc, uuid, ctrls[uuid])
                      IN IF CanFormat(value)
                         THEN ValueStatesLoop(message, i + 1, ctrls, wsc1, places, ts,
                                  Append(writes, PushPoint(wsc1[uuid].point_websocket,
                                                           places, value, ts)))
                         ELSE [websocket_controls |-> wsc1, writes |-> writes,
                               raised |-> "ValueError"]
                 ELSE ValueStatesLoop(message, i + 1, ctrls, wsc, places, ts, writes)

\* the session delivers a value-state batch (message type 2)
handle_value_states(message) ==
    /\ 2 \in message_callbacks
    /\ wsState = "CONNECTED"
    /\ LET r == ValueStatesLoop(message, 1, controls, websocket_controls,
                                FormatterPlaces(round_floats), now, << >>)
       IN /\ websocket_controls' = r.websocket_controls
          /\ lastEvent' = [kind |-> "value_states", message |-> message,
                           before |-> Registries, ts |-> now,
                           rebuilds |-> RebuildsInProgress,
                           writes |-> r.writes, raised |-> r.raised]
    /\ UNCHANGED << writerVars, procVars, labVars, controls, grabber_controls, builtFrom, flagVars, cfgVars, envVars,
                    gatherVars, startVars, pollVars, points >>

\* the session delivers a text message (message type 0): a dict, here the
\* sequence of its items
handle_text_messages(message) ==
    /\ 0 \in message_callbacks
    /\ wsState = "CONNECTED"
    /\ IF Len(message) = 1 /\ message[1][1] \in DOMAIN grabber_controls
       THEN LET uuid == message[1][1]
                r == TextMessageEffect(uuid, message[1][2], points[builtFrom][uuid],
                                       round_floats, now)
            IN /\ points' = [points EXCEPT ![builtFrom][uuid] = r.point]
               /\ lastEvent' = [kind |-> "text", message |-> message, before |-> Registries,
                                ts |-> now, rebuilds |-> RebuildsInProgress,
                                writes |-> r.writes, raised |-> r.raised]
       ELSE /\ points' = points
            /\ lastEvent' = [kind |-> "text", message |-> message, before |-> Registries,
                             ts |-> now, rebuilds |-> RebuildsInProgress,
                             writes |-> << >>, raised |-> ""]
    /\ UNCHANGED << writerVars, procVars, labVars, regVars, flagVars, cfgVars, envVars, gatherVars, startVars, pollVars >>

\* ------------------------------------------------------------------------
\* Reconnects
\* ------------------------------------------------------------------------
\* asyncio.create_task(self.init_gather_controls_from_miniserver())
CreateGatherTask(pc) ==
    LET t == CHOOSE x \in GatherIds : pc[x] = "none" /\ \A y \in GatherIds : pc[y] = "none" => x <= y
    IN [pc EXCEPT ![t] = "created"]

\* the session loses its connection and starts to reconnect
Disconnect ==
    /\ wsState = "CONNECTED"
    /\ reconnects < MaxReconnects
    /\ wsState' = "RECONNECTING"
    /\ UNCHANGED << writerVars, procVars, labVars, regVars, flagVars, cfgVars, remoteDoc, now, gatherVars, startVars,
                    pollVars, histVars >>

\* the session is back and calls udpate_controls (event RECONNECTED): it waits
\* for the two flags and creates a config fetch + build task
Reconnected ==
    /\ wsState = "RECONNECTING"
    /\ event_callbacks
    /\ wsState' = "CONNECTED"
    /\ reconnects' = reconnects + 1
    /\ IF ws_client_initialized /\ grabber_controls_updated
       THEN /\ gatherPc' = CreateGatherTask(gatherPc)
            /\ UNCHANGED updateWaiters
       ELSE /\ updateWaiters' = updateWaiters + 1
            /\ UNCHANGED gatherPc
    /\ UNCHANGED << writerVars, procVars, labVars, regVars, flagVars, cfgVars, remoteDoc, now, cacheLastModified, gatherDoc,
                    startVars, pollVars, histVars >>

\* a suspended udpate_controls goes on once both flags are set
UpdateControlsResume ==
    /\ updateWaiters > 0
    /\ ws_client_initialized /\ grabber_controls_updated
    /\ updateWaiters' = updateWaiters - 1
    /\ gatherPc' = CreateGatherTask(gatherPc)
    /\ UNCHANGED << writerVars, procVars, labVars, regVars, flagVars, cfgVars, envVars, cacheLastModified, gatherDoc,
                    reconnects, startVars, pollVars, histVars >>

\* ------------------------------------------------------------------------
\* The life of the process: main(), run_bridge, shutdown
\* ------------------------------------------------------------------------
\* the coroutines main() gathers that have not ended (children of main_task)
GatherChildren ==
    (IF pcTelegraf = "start" THEN {"telegraf.initialize"} ELSE {})
    \cup (IF gatherPc[0] \in {"created", "fetching", "persisting"}
          THEN {"init_gather_controls_from_miniserver"} ELSE {})
    \cup (IF pcWs \in {"start", "connecting", "waiting"}
          THEN {"init_websocket_connection"} ELSE {})
    \cup (IF pcInitGrabber \in {"start", "barrier"} THEN {"init_grabber"} ELSE {})

\* the tasks made with create_task that have not ended
CreatedTasks ==
    (IF pcPoller \in {"created", "loop", "gathering", "sleeping", "backoff"}
     THEN {"grabber.start"} ELSE {})
    \cup (IF \E u \in DOMAIN pollTasks : pollTasks[u].st \in {"created", "sending"}
          THEN {"send_command"} ELSE {})
    \cup (IF RebuildsInProgress # {} THEN {"rebuild"} ELSE {})
    \cup (IF updateWaiters > 0 THEN {"udpate_controls"} ELSE {})

\* asyncio.all_tasks() without the current task: the tasks of the running
\* loop.  The tasks of the bridge belong to the loop of asyncio.run(run_bridge(bridge)).
all_tasks ==
    IF proc.loop = 1
    THEN GatherChildren \cup CreatedTasks
         \cup (IF proc.main_task = "gathering" THEN {"main"} ELSE {})
    ELSE {}

\* task.cancel() on the children of main_task: a coroutine that has not
\* started never runs, one that is suspended gets CancelledError; the finally
\* clause of init_websocket_connection then awaits ws_client.stop()
CancelChildren(stopNow) ==
    /\ pcTelegraf' = IF pcTelegraf = "start" THEN "cancelled" ELSE pcTelegraf
    /\ pcInitGrabber' = IF pcInitGrabber \in {"start", "barrier"} THEN "cancelled" ELSE pcInitGrabber
    /\ pcWs' = IF pcWs = "start" THEN "cancelled"
               ELSE IF pcWs \in {"connecting", "waiting"}
                    THEN (IF stopNow THEN "cancelled" ELSE "stopping")
                    ELSE pcWs

\* task.cancel() on the tasks of the set ids of config fetch + build tasks
CancelGathers(ids) ==
    gatherPc' = [t \in GatherIds |->
                    IF t \in ids /\ gatherPc[t] \in {"created", "fetching", "persisting"}
                    THEN "cancelled" ELSE gatherPc[t]]

\* SIGTERM or SIGINT: signal_handler sets the shutdown_event of run_bridge
Signal ==
    /\ proc.pc = "waiting"
    /\ proc' = [proc EXCEPT !.pc = "signalled"]
    /\ UNCHANGED << writerVars, labVars, regVars, flagVars, cfgVars, envVars, gatherVars, startVars,
                    pollVars, histVars >>

\* gather() in bridge.main() raises the first exception one of its four
\* coroutines raises: main_task ends with it, the other three go on
MainTaskRaises ==
    /\ proc.main_task = "gathering"
    /\ \/ pcTelegraf = "raised"
       \/ gatherPc[0] \in {"TypeError", "Exception"}
       \/ pcWs = "raised"
       \/ pcInitGrabber = "AttributeError"
    /\ proc' = [proc EXCEPT !.main_task = "raised"]
    /\ UNCHANGED << writerVars, labVars, regVars, flagVars, cfgVars, envVars, gatherVars, startVars,
                    pollVars, histVars >>

\* run_bridge after shutdown_event.wait(): main_task.cancel(), await main_task.
\* A main_task that has ended with an exception hands it to run_bridge.
RunBridgeCancelMain ==
    /\ proc.pc = "signalled"
    /\ IF proc.main_task = "raised"
       THEN /\ proc' = [proc EXCEPT !.pc = "teardown", !.error = "RuntimeError"]
            /\ UNCHANGED << gatherPc, startVars >>
       ELSE /\ proc' = [proc EXCEPT !.pc = "awaiting_main", !.main_task = "cancelled",
                                    !.cancelled = @ \cup {"main"} \cup GatherChildren]
            /\ CancelChildren(FALSE)
            /\ CancelGathers({0})
    /\ UNCHANGED << writerVars, labVars, regVars, flagVars, cfgVars, envVars, cacheLastModified,
                    gatherDoc, updateWaiters, reconnects, pollVars, histVars >>

\* the finally clause of the cancelled init_websocket_connection: ws_client.stop()
WsFinallyStop ==
    /\ pcWs = "stopping"
    /\ pcWs' = "cancelled"
    /\ wsState' = "STOPPED"
    /\ proc' = [proc EXCEPT !.stops = @ + 1]
    /\ UNCHANGED << writerVars, labVars, regVars, flagVars, cfgVars, remoteDoc, now, gatherVars,
                    pcTelegraf, pcInitGrabber, pollVars, histVars >>

\* main_task has ended with CancelledError, which run_bridge swallows
RunBridgeReturn ==
    /\ proc.pc = "awaiting_main"
    /\ pcWs # "stopping"
    /\ proc' = [proc EXCEPT !.pc = "teardown"]
    /\ UNCHANGED << writerVars, labVars, regVars, flagVars, cfgVars, envVars, gatherVars, startVars,
                    pollVars, histVars >>

\* asyncio.run(run_bridge(bridge)) ends: it cancels every task its loop still
\* has, waits for them and closes the loop; main() goes on to its finally clause
LoopTeardown ==
    /\ proc.pc = "teardown"
    /\ proc' = [proc EXCEPT !.pc = "shutdown", !.loop = 2,
                            !.cancelled = @ \cup all_tasks,
                            !.stops = IF pcWs \in {"connecting", "waiting"} THEN @ + 1 ELSE @]
    /\ CancelChildren(TRUE)
    /\ CancelGathers(GatherIds)
    /\ wsState' = IF pcWs \in {"connecting", "waiting"} THEN "STOPPED" ELSE wsState
    /\ updateWaiters' = 0
    /\ pcPoller' = IF "grabber.start" \in CreatedTasks THEN "cancelled" ELSE pcPoller
    /\ pollTasks' = [u \in DOMAIN pollTasks |->
                        IF pollTasks[u].st \in {"created", "sending"}
                        THEN [pollTasks[u] EXCEPT !.st = "cancelled"] ELSE pollTasks[u]]
    /\ semaphore' = SemaphoreLimit
    /\ UNCHANGED << writerVars, labVars, regVars, flagVars, cfgVars, remoteDoc, now,
                    cacheLastModified, gatherDoc, reconnects, histVars >>

\* asyncio.run(bridge.shutdown()) in a new loop: set _shutdown_event, stop the session
ShutdownBegin ==
    /\ proc.pc = "shutdown"
    /\ proc' = [proc EXCEPT !.pc = "sd_stopped", !.flag = TRUE,
                            !.stops = IF ws_client # NoneValue THEN @ + 1 ELSE @]
    /\ wsState' = IF ws_client # NoneValue THEN "STOPPED" ELSE wsState
    /\ UNCHANGED << writerVars, labVars, regVars, flagVars, cfgVars, remoteDoc, now, gatherVars,
                    startVars, pollVars, histVars >>

\* await telegraf.close()
ShutdownCloseWriter ==
    /\ proc.pc = "sd_stopped"
    /\ proc' = [proc EXCEPT !.pc = "sd_closed", !.writer_closed = TRUE]
    /\ UNCHANGED << writerVars, labVars, regVars, flagVars, cfgVars, envVars, gatherVars, startVars,
                    pollVars, histVars >>

\* cancel all_tasks(), gather them with return_exceptions=True, on_exit()
ShutdownCancelTasks ==
    /\ proc.pc = "sd_closed"
    /\ proc' = [proc EXCEPT !.pc = "exited", !.cancelled = @ \cup all_tasks]
    /\ UNCHANGED << writerVars, labVars, regVars, flagVars, cfgVars, envVars, gatherVars, startVars,
                    pollVars, histVars >>

\* the session has used up max_reconnect_attempts and gives up
SessionGaveUp ==
    /\ wsState = "RECONNECTING"
    /\ wsState' = "STOPPED"
    /\ UNCHANGED << writerVars, procVars, labVars, regVars, flagVars, cfgVars, remoteDoc, now,
                    gatherVars, startVars, pollVars, histVars >>

\* ------------------------------------------------------------------------
\* The environment
\* ------------------------------------------------------------------------
\* a new configuration is loaded into the Miniserver while the session is down
ConfigChanged ==
    /\ wsState # "CONNECTED"
    /\ remoteDoc' \in Docs \ {remoteDoc}
    /\ UNCHANGED << writerVars, procVars, labVars, regVars, flagVars, cfgVars, wsState, now, gatherVars, startVars,
                    pollVars, histVars >>

\* time.time_ns() advances
Tick ==
    /\ now < MaxTime
    /\ now' = now + 1
    /\ UNCHANGED << writerVars, procVars, labVars, regVars, flagVars, cfgVars, remoteDoc, wsState, gatherVars, startVars,
                    pollVars, histVars >>

\* the text messages delivered in the life of the bridge: a plain poll
\* response per uuid, and a dict with two keys
BridgeTextMessages ==
    {<< <<u, Payload(Some("12"), << >>)>> >> : u \in {"a", "b"}}
        \cup {<< <<"a", Payload(Some("12"), << >>)>>, <<"b", Payload(Some("12"), << >>)>> >>}

\* ------------------------------------------------------------------------
\* The Telegraf writers (telegraf.py)
\* ------------------------------------------------------------------------
\* A writer is [type, max_retries, initialized, handle, conns, flush, buffer, out]:
\*   handle   the transport / StreamWriter / MQTT client it holds, if any
\*   conns    every connection object made so far: "new", "open" or "closed"
\*   flush    ExecD's _flush_task: "none", "running", "cancelling" or "cancelled"
\*   out      the points that left the process, with the connection used
\* A frame is one call of initialize, write or close: pc is the await it is
\* suspended at, ctx says whether initialize/close run on their own ("top"),
\* as write's lazy initialize ("lazy") or as write's reconnect ("recover").
NewWriter(type, max_retries) ==
    [type |-> type, max_retries |-> max_retries, initialized |-> FALSE,
     handle |-> NoneValue, conns |-> << >>, flush |-> "none", buffer |-> << >>,
     out |-> << >>]

IdleFrame ==
    [op |-> "none", pc |-> "idle", ctx |-> "top", attempt |-> 0, point |-> "",
     conn |-> NoneValue, result |-> "none"]

Ret(w, f) == [w |-> w, f |-> [f EXCEPT !.pc = "idle", !.result = "returned"]]

Raise(w, f, exc) == [w |-> w, f |-> [f EXCEPT !.pc = "idle", !.result = exc]]

Suspend(w, f, pc) == [w |-> w, f |-> [f EXCEPT !.pc = pc]]

HandleOf(w) == CHOOSE c \in w.handle : TRUE

\* a new connection object is made and stored in the handle
OpenConn(w, status) ==
    [w EXCEPT !.conns = Append(@, status), !.handle = Some(Len(w.conns) + 1)]

CloseConn(w, c) == [w EXCEPT !.conns[c] = "closed"]

\* the point leaves through the connection in the handle
Emit(w, point) == [w EXCEPT !.out = Append(@, [point |-> point, conn |-> w.handle])]

\* ---- UDPTelegrafWriter
\* an initialize() without the test of _initialized
UdpInitializeAlways(w, f) == Suspend(w, f, "udp_endpoint")

UdpInitialize(w, f) ==
    IF w.initialized THEN Ret(w, f) ELSE Suspend(w, f, "udp_endpoint")

\* create_datagram_endpoint returned or raised; connect re-raises
UdpEndpointDone(w, f, env) ==
    IF env.conn THEN Ret([OpenConn(w, "open") EXCEPT !.initialized = TRUE], f)
    ELSE Raise(w, f, "OSError")

\* a close() that forgets the transport
UdpCloseFlagOnly(w) == [w EXCEPT !.initialized = FALSE]

\* close() has no suspension point: transport.close(), _initialized = False
UdpCloseNow(w) ==
    [(IF w.handle # NoneValue THEN CloseConn(w, HandleOf(w)) ELSE w)
        EXCEPT !.initialized = FALSE]

UdpClose(w, f) == Ret(UdpCloseNow(w), f)

\* sendto on a transport that is None raises AttributeError; on a closed
\* transport the datagram is dropped or an exception is raised
UdpWrite(w, f, env) ==
    IF w.handle # NoneValue /\ env.send
    THEN Ret(IF w.conns[HandleOf(w)] = "open" THEN Emit(w, f.point) ELSE w, f)
    ELSE UdpInitialize(UdpCloseNow(w), [f EXCEPT !.ctx = "recover"])

\* ---- TCPTelegrafWriter
RECURSIVE TcpInitialize(_, _, _)
RECURSIVE TcpConnectLoop(_, _, _)
RECURSIVE TcpAfterInit(_, _, _)
RECURSIVE TcpSend(_, _, _)
RECURSIVE TcpRecover(_, _, _)

\* a recovery that goes straight to initialize()
TcpRecoverNoClose(w, f, env) ==
    TcpInitialize([w EXCEPT !.initialized = FALSE], [f EXCEPT !.ctx = "recover"], env)

TcpInitialize(w, f, env) ==
    IF w.initialized THEN TcpAfterInit(w, f, env)
    ELSE TcpConnectLoop(w, [f EXCEPT !.attempt = 1], env)

\* for attempt in range(1, self.max_retries): await open_connection(...)
\* when the range is used up connect returns and initialize sets the flag
TcpConnectLoop(w, f, env) ==
    IF f.attempt >= w.max_retries
    THEN TcpAfterInit([w EXCEPT !.initialized = TRUE], f, env)
    ELSE Suspend(w, f, "tcp_open")

\* open_connection returned or raised
TcpOpenDone(w, f, env) ==
    IF env.conn
    THEN TcpAfterInit([OpenConn(w, "open") EXCEPT !.initialized = TRUE], f, env)
    ELSE IF w.max_retries > 0 /\ f.attempt > w.max_retries
         THEN Raise(w, f, "OSError")
         ELSE Suspend(w, f, "tcp_sleep")

\* asyncio.sleep(1) is over: the next attempt
TcpSleepDone(w, f, env) == TcpConnectLoop(w, [f EXCEPT !.attempt = @ + 1], env)

TcpAfterInit(w, f, env) ==
    IF f.ctx = "lazy" THEN TcpSend(w, f, env) ELSE Ret(w, f)

\* if point: writer.write(point); await writer.drain()
TcpSend(w, f, env) ==
    IF f.point = "" THEN Ret(w, f)
    ELSE IF w.handle = NoneValue THEN TcpRecover(w, f, env)
    ELSE Suspend(w, [f EXCEPT !.conn = w.handle], "tcp_drain")

\* drain returned or raised
TcpDrainDone(w, f, env) ==
    IF env.send /\ \A c \in f.conn : w.conns[c] = "open"
    THEN Ret([w EXCEPT !.out = Append(@, [point |-> f.point, conn |-> f.conn])], f)
    ELSE TcpRecover(w, f, env)

\* except Exception: await self.close(); await self.initialize()
TcpRecover(w, f, env) ==
    IF w.handle # NoneValue
    THEN Suspend(CloseConn(w, HandleOf(w)), [f EXCEPT !.ctx = "recover"], "tcp_wait_closed")
    ELSE TcpInitialize([w EXCEPT !.initialized = FALSE], [f EXCEPT !.ctx = "recover"], env)

TcpClose(w, f) ==
    IF w.handle # NoneValue
    THEN Suspend(CloseConn(w, HandleOf(w)), f, "tcp_wait_closed")
    ELSE Ret([w EXCEPT !.initialized = FALSE], f)

\* wait_closed returned or raised (logged): _initialized = False
TcpWaitClosedDone(w, f, env) ==
    IF f.op = "close" THEN Ret([w EXCEPT !.initialized = FALSE], f)
    ELSE TcpInitialize([w EXCEPT !.initialized = FALSE], f, env)

TcpWrite(w, f, env) ==
    IF ~w.initialized THEN TcpInitialize(w, [f EXCEPT !.ctx = "lazy"], env)
    ELSE TcpSend(w, f, env)

\* ---- ExecDTelegrafWriter
ExecdInitialize(w, f) ==
    Ret(IF w.initialized THEN w ELSE [w EXCEPT !.initialized = TRUE, !.flush = "running"], f)

\* _flush_buffer: nothing when the buffer is empty, else the buffered points
\* go to stdout and the buffer is cleared
FlushBuffer(w) ==
    IF w.buffer = << >> THEN w
    ELSE [w EXCEPT !.out = @ \o [i \in DOMAIN w.buffer |->
                                    [point |-> w.buffer[i], conn |-> NoneValue]],
                   !.buffer = << >>]

\* cancel the flush task and await it; a task that is already done does not
\* suspend: _flush_buffer(), _initialized = False
ExecdClose(w, f) ==
    IF w.flush \in {"running", "cancelling"}
    THEN Suspend([w EXCEPT !.flush = "cancelling"], f, "execd_await_flush")
    ELSE Ret([FlushBuffer(w) EXCEPT !.initialized = FALSE], f)

\* the flush task has ended; _flush_buffer(); _initialized = False
ExecdFlushAwaited(w, f) ==
    Ret([FlushBuffer(w) EXCEPT !.initialized = FALSE,
                               !.flush = IF @ = "cancelling" THEN "cancelled" ELSE @], f)

\* a write() that appends the point to _buffer and leaves it to the flush
ExecdWriteBuffered(w, f, env) ==
    Ret(IF f.point # "" THEN [w EXCEPT !.buffer = Append(@, f.point)] ELSE w, f)

\* sys.stdout.buffer.write(point + b'\n'); sys.stdout.flush()
ExecdWrite(w, f, env) ==
    Ret(IF f.point # "" /\ env.send
        THEN [w EXCEPT !.out = Append(@, [point |-> f.point, conn |-> NoneValue])]
        ELSE w, f)

\* ---- MQTTTelegrafWriter
RECURSIVE MqttInitialize(_, _, _)
RECURSIVE MqttAfterInit(_, _, _)
RECURSIVE MqttPublish(_, _, _)
RECURSIVE MqttRecover(_, _, _)

\* connect(): self.client = MQTTClient(...); await self.client.connect(...)
MqttInitialize(w, f, env) ==
    IF w.initialized THEN MqttAfterInit(w, f, env)
    ELSE LET w1 == OpenConn(w, "new")
         IN Suspend(w1, [f EXCEPT !.conn = w1.handle], "mqtt_connect")

\* client.connect returned or raised; connect re-raises
MqttConnectDone(w, f, env) ==
    IF env.conn
    THEN MqttAfterInit([w EXCEPT !.conns[CHOOSE c \in f.conn : TRUE] = "open",
                                 !.initialized = TRUE], f, env)
    ELSE Raise(w, f, "MQTTConnectError")

MqttAfterInit(w, f, env) ==
    IF f.ctx = "lazy" THEN MqttPublish(w, f, env) ELSE Ret(w, f)

\* if point and self.client: self.client.publish(topic, point, qos=0)
MqttPublish(w, f, env) ==
    IF f.point = "" \/ w.handle = NoneValue THEN Ret(w, f)
    ELSE IF env.send
         THEN Ret(IF w.conns[HandleOf(w)] = "open" THEN Emit(w, f.point) ELSE w, f)
    ELSE MqttRecover(w, f, env)

\* except Exception: await self.close(); await self.initialize()
MqttRecover(w, f, env) ==
    Suspend(w, [f EXCEPT !.ctx = "recover", !.conn = w.handle], "mqtt_disconnect")

MqttClose(w, f) ==
    IF w.handle # NoneValue
    THEN Suspend(w, [f EXCEPT !.conn = w.handle], "mqtt_disconnect")
    ELSE Ret([w EXCEPT !.initialized = FALSE], f)

\* client.disconnect returned or raised (logged): _initialized = False
MqttDisconnectDone(w, f, env) ==
    LET w1 == [CloseConn(w, CHOOSE c \in f.conn : TRUE) EXCEPT !.initialized = FALSE]
    IN IF f.op = "close" THEN Ret(w1, f)
       ELSE MqttInitialize(w1, f, env)

MqttWrite(w, f, env) ==
    IF ~w.initialized THEN MqttInitialize(w, [f EXCEPT !.ctx = "lazy"], env)
    ELSE MqttPublish(w, f, env)

\* ---- the calls
Callers == 1..2

\* most calls made on the writer in one run
MaxWriterCalls == 3

WriterPoints == {"", "p"}

\* what the network does at this step: whether a connect and a send succeed
Envs == [conn : BOOLEAN, send : BOOLEAN]

DoInitialize(w, f, env) ==
    CASE w.type = "udp" -> UdpInitialize(w, f)
      [] w.type = "tcp" -> TcpInitialize(w, f, env)
      [] w.type = "execd" -> ExecdInitialize(w, f)
      [] w.type = "mqtt" -> MqttInitialize(w, f, env)

DoWrite(w, f, env) ==
    CASE w.type = "udp" -> UdpWrite(w, f, env)
      [] w.type = "tcp" -> TcpWrite(w, f, env)
      [] w.type = "execd" -> ExecdWrite(w, f, env)
      [] w.type = "mqtt" -> MqttWrite(w, f, env)

DoClose(w, f) ==
    CASE w.type = "udp" -> UdpClose(w, f)
      [] w.type = "tcp" -> TcpClose(w, f)
      [] w.type = "execd" -> ExecdClose(w, f)
      [] w.type = "mqtt" -> MqttClose(w, f)

DoResume(w, f, env) ==
    CASE f.pc = "udp_endpoint" -> UdpEndpointDone(w, f, env)
      [] f.pc = "tcp_open" -> TcpOpenDone(w, f, env)
      [] f.pc = "tcp_sleep" -> TcpSleepDone(w, f, env)
      [] f.pc = "tcp_drain" -> TcpDrainDone(w, f, env)
      [] f.pc = "tcp_wait_closed" -> TcpWaitClosedDone(w, f, env)
      [] f.pc = "execd_await_flush" -> ExecdFlushAwaited(w, f)
      [] f.pc = "mqtt_connect" -> MqttConnectDone(w, f, env)
      [] f.pc = "mqtt_disconnect" -> MqttDisconnectDone(w, f, env)

NewFrame(op, point) == [IdleFrame EXCEPT !.op = op, !.point = point]

\* a task calls telegraf.initialize() and runs to its first suspension
WriterInitialize(c) ==
    /\ frames[c].pc = "idle"
    /\ callsMade < MaxWriterCalls
    /\ \E env \in Envs :
          LET r == DoInitialize(writer, NewFrame("initialize", ""), env)
          IN writer' = r.w /\ frames' = [frames EXCEPT ![c] = r.f]
    /\ callsMade' = callsMade + 1
    /\ UNCHANGED bridgeVars

\* a task calls telegraf.write(point)
WriterWrite(c) ==
    /\ frames[c].pc = "idle"
    /\ callsMade < MaxWriterCalls
    /\ \E env \in Envs, point \in WriterPoints :
          LET r == DoWrite(writer, NewFrame("write", point), env)
          IN writer' = r.w /\ frames' = [frames EXCEPT ![c] = r.f]
    /\ callsMade' = callsMade + 1
    /\ UNCHANGED bridgeVars

\* a task calls telegraf.close()
WriterClose(c) ==
    /\ frames[c].pc = "idle"
    /\ callsMade < MaxWriterCalls
    /\ LET r == DoClose(writer, NewFrame("close", ""))
       IN writer' = r.w /\ frames' = [frames EXCEPT ![c] = r.f]
    /\ callsMade' = callsMade + 1
    /\ UNCHANGED bridgeVars

\* the await a call is suspended at completes and the call runs on
WriterResume(c) ==
    /\ frames[c].pc # "idle"
    /\ \E env \in Envs :
          LET r == DoResume(writer, frames[c], env)
          IN writer' = r.w /\ frames' = [frames EXCEPT ![c] = r.f]
    /\ UNCHANGED << bridgeVars, callsMade >>

\* _periodic_flush: the flush task of the ExecD writer wakes from its
\* sleep(1.0) and calls _flush_buffer()
PeriodicFlush ==
    /\ writer.type = "execd"
    /\ writer.flush = "running"
    /\ writer' = FlushBuffer(writer)
    /\ UNCHANGED << bridgeVars, frames, callsMade >>

\* TelegrafConfig.max_retries of the modelled installations
MaxRetriesValues == {1, 3}

WriterInit ==
    /\ BridgeInit
    /\ remoteDoc = DocA
    /\ writer \in {NewWriter(ty, mr) : ty \in {"udp", "tcp", "execd", "mqtt"},
                                       mr \in MaxRetriesValues}
    /\ frames = [c \in Callers |-> IdleFrame]
    /\ callsMade = 0
    /\ LabParked

\* the writer left alone
WriterParked ==
    /\ writer = NewWriter("udp", 3)
    /\ frames = [c \in Callers |-> IdleFrame]
    /\ callsMade = 0

WriterNext ==
    \/ \E c \in Callers : WriterInitialize(c)
    \/ \E c \in Callers : WriterWrite(c)
    \/ \E c \in Callers : WriterClose(c)
    \/ \E c \in Callers : WriterResume(c)
    \/ PeriodicFlush

vars == << bridgeVars, writerVars >>

Next ==
    \/ TelegrafInitialize
    \/ WsBegin
    \/ WsConnected
    \/ WsConnectFailed
    \/ InitGrabberBegin
    \/ InitGrabberBarrier
    \/ \E t \in GatherIds : GatherStart(t)
    \/ \E t \in GatherIds : GatherDownload(t)
    \/ \E t \in GatherIds : GatherFail(t)
    \/ \E t \in GatherIds : GatherComplete(t)
    \/ GrabberStart
    \/ GrabAllValues
    \/ \E u \in DOMAIN pollTasks : SendCommandAcquire(u)
    \/ \E u \in DOMAIN pollTasks : SendCommandReturn(u)
    \/ GrabCycleDone
    \/ GrabberWake
    \/ \E m \in BridgeValueMessages : handle_value_states(m)
    \/ \E m \in BridgeTextMessages : handle_text_messages(m)
    \/ Disconnect
    \/ Reconnected
    \/ UpdateControlsResume
    \/ ConfigChanged

Init == BridgeInit /\ WriterParked /\ LabParked

\* the bridge from construction on: startup, events, reconnects, poll cycles
Spec == Init /\ [][Next]_vars

\* ---- the writers on their own
SpecWriter == WriterInit /\ [][WriterNext]_vars

\* ---- the writer used by one task at a time: a call starts when no other
\* call is in progress
NoCallInProgress == \A c \in Callers : frames[c].pc = "idle"

SeqNext ==
    \/ \E c \in Callers : NoCallInProgress /\ WriterInitialize(c)
    \/ \E c \in Callers : NoCallInProgress /\ WriterWrite(c)
    \/ \E c \in Callers : NoCallInProgress /\ WriterClose(c)
    \/ \E c \in Callers : WriterResume(c)
    \/ PeriodicFlush

SpecWriterSeq == WriterInit /\ [][SeqNext]_vars

\* ---- the bridge once startup is over: the state main() reaches when the
\* first config fetch + build used document doc, the session is connected and
\* the poller task has entered its loop
StartedOn(doc, grabber, new) ==
       /\ controls = new.controls
       /\ websocket_controls = new.websocket_controls
       /\ grabber_controls = new.grabber_controls
       /\ builtFrom = doc.name
       /\ ws_client = Some("loxwebsocket")
       /\ ws_client_initialized = TRUE
       /\ grabber_controls_updated = TRUE
       /\ message_callbacks = {0, 2}
       /\ event_callbacks = TRUE
       /\ grabberEnabled = grabber
       /\ remoteDoc = doc
       /\ wsState = "CONNECTED"
       /\ now = 0
       /\ cacheLastModified = Some(doc.lastModified)
       /\ points = Put(EmptyDict, doc.name, NewPoints(new.controls))
       /\ gatherPc = [t \in GatherIds |-> IF t = 0 THEN "done" ELSE "none"]
       /\ gatherDoc = [t \in GatherIds |-> IF t = 0 THEN Some(doc) ELSE NoneValue]
       /\ updateWaiters = 0
       /\ reconnects = 0
       /\ pcTelegraf = "done"
       /\ pcWs = "waiting"
       /\ pcInitGrabber = "done"
       /\ pcPoller = "created"
       /\ semaphore = SemaphoreLimit
       /\ pollTasks = EmptyDict
       /\ lastEvent = NoEvent

\* the registries are the ones lines 112-114 build under config.toml
StartedWith(doc, grabber) == StartedOn(doc, grabber, BuildRegistries(doc))

\* config.general.grabber is left at its default
Started(doc) == StartedWith(doc, TRUE)

\* ---- value-state batches of every shape, under both settings of round_floats
DispatchInit ==
    /\ \E doc \in Docs : Started(doc)
    /\ round_floats \in BOOLEAN
    /\ WriterParked
    /\ LabParked

DispatchNext ==
    \/ \E m \in ValueStateMessages : handle_value_states(m)
    \/ Tick

SpecDispatch == DispatchInit /\ [][DispatchNext]_vars

\* ---- value-state batches that mix known and unknown uuids: every order of
\* a, b and z (z is in no document), each with a float or a str
BatchUuids == {"a", "b", "z"}

MixedBatches ==
    {m \in UNION {[1..n -> BatchUuids \X PushValues] : n \in 1..Cardinality(BatchUuids)} :
        \A i, j \in DOMAIN m : i # j => m[i][1] # m[j][1]}

BatchNext ==
    \/ \E m \in MixedBatches : handle_value_states(m)
    \/ Tick

SpecBatch == DispatchInit /\ [][BatchNext]_vars

\* ---- value-state batches under a push filter that excludes a type
\* [control.websocket] type_blacklist = ["Switch"]
push_filter == FilterConfig({"Switch"}, {}, {}, {})

\* lines 112-114 of init_gather_controls_from_miniserver under that filter
BuildFiltered(doc) ==
    LET r == extractControls(doc.xml, config_type_blacklist)
    IN [controls |-> r.controls,
        websocket_controls |-> filter_controls(push_filter, r.visu_controls),
        grabber_controls |-> filter_controls(config_grabber_filter, r.non_visu_controls)]

PushFilterInit ==
    /\ \E doc \in Docs : StartedOn(doc, TRUE, BuildFiltered(doc))
    /\ round_floats = FALSE
    /\ WriterParked
    /\ LabParked

SpecPushFilter == PushFilterInit /\ [][BatchNext]_vars

\* ---- text messages of every shape
OutputKeys == {0, 1}

\* "output<k>": {"name": ..., "nr": k, "value": ...}, each key present or not
Outputs ==
    {Output(k, name, IF hasNr THEN Some(k) ELSE NoneValue, value) :
        k \in OutputKeys, name \in {NoneValue, Some("flow")},
        hasNr \in BOOLEAN, value \in {NoneValue, Some("3")}}

OutputLists ==
    {os \in UNION {[1..n -> Outputs] : n \in 0..MaxOutputs} :
        \A i, j \in DOMAIN os : i < j => os[i].key < os[j].key}

Payloads ==
    {Payload(value, os) :
        value \in {NoneValue, Some("12"), Some("3.14159")}, os \in OutputLists}

TextMessages ==
    {<< <<u, p>> >> : u \in {"a", "b", "z"}, p \in Payloads}
        \cup {<< <<"a", Payload(Some("12"), << >>)>>, <<"b", Payload(Some("12"), << >>)>> >>}

TextInit ==
    /\ \E doc \in Docs : Started(doc)
    /\ round_floats \in BOOLEAN
    /\ WriterParked
    /\ LabParked

TextNext ==
    \/ \E m \in TextMessages : handle_text_messages(m)
    \/ Tick

SpecText == TextInit /\ [][TextNext]_vars

\* ---- the poller with more poll-subscribed controls than the semaphore admits
NumPollControls == 11

PollUuidPool == << "p01", "p02", "p03", "p04", "p05", "p06", "p07", "p08", "p09", "p10",
                   "p11", "p12", "p13" >>

\* a document of NumPollControls controls that are not visualised
DocP ==
    Doc("P", 3, [i \in 1..NumPollControls |->
                   Elem(PollUuidPool[i], "InfoOnlyAnalog", "Meter", "", "", {}, << >>)])

GrabberInit ==
    /\ Started(DocP)
    /\ round_floats = FALSE
    /\ WriterParked
    /\ LabParked

GrabberNext ==
    \/ GrabberStart
    \/ GrabAllValues
    \/ \E u \in DOMAIN pollTasks : SendCommandAcquire(u)
    \/ \E u \in DOMAIN pollTasks : SendCommandReturn(u)
    \/ GrabCycleDone
    \/ GrabberWake

SpecGrabber == GrabberInit /\ [][GrabberNext]_vars

\* ---- poll cycles while the session loses its connection
\* a document of three controls that are not visualised, one of them secured
DocQ ==
    Doc("Q", 4,
        << Elem("q1", "InfoOnlyAnalog", "Meter", "", "", {}, << >>),
           Elem("q2", "InfoOnlyAnalog", "Meter", "", "true", {}, << >>),
           Elem("q3", "Switch", "Light", "false", "", {}, << >>) >>)

PollInit ==
    /\ Started(DocQ)
    /\ round_floats = FALSE
    /\ WriterParked
    /\ LabParked

PollNext ==
    \/ GrabberStart
    \/ GrabAllValues
    \/ \E u \in DOMAIN pollTasks : SendCommandAcquire(u)
    \/ \E u \in DOMAIN pollTasks : SendCommandReturn(u)
    \/ GrabCycleDone
    \/ GrabberWake
    \/ Disconnect
    \/ Reconnected
    \/ \E t \in GatherIds : GatherStart(t)

SpecPoll == PollInit /\ [][PollNext]_vars

\* ---- the process from its start to its exit
LifeInit == BridgeInit /\ WriterParked /\ LabParked

\* the steps the program takes by itself
LifeSteps ==
    \/ TelegrafInitialize
    \/ WsBegin
    \/ WsConnected
    \/ WsConnectFailed
    \/ InitGrabberBegin
    \/ InitGrabberBarrier
    \/ \E t \in GatherIds : GatherStart(t)
    \/ \E t \in GatherIds : GatherDownload(t)
    \/ \E t \in GatherIds : GatherFail(t)
    \/ \E t \in GatherIds : GatherComplete(t)
    \/ GrabberStart
    \/ GrabAllValues
    \/ \E u \in DOMAIN pollTasks : SendCommandAcquire(u)
    \/ \E u \in DOMAIN pollTasks : SendCommandReturn(u)
    \/ GrabCycleDone
    \/ GrabberWake
    \/ Reconnected
    \/ UpdateControlsResume
    \/ MainTaskRaises
    \/ RunBridgeCancelMain
    \/ WsFinallyStop
    \/ RunBridgeReturn
    \/ LoopTeardown
    \/ ShutdownBegin
    \/ ShutdownCloseWriter
    \/ ShutdownCancelTasks

LifeNext ==
    \/ LifeSteps
    \/ Signal
    \/ Disconnect
    \/ SessionGaveUp

\* the event loop runs every callback that is ready; signals, lost
\* connections and failing transfers are up to the environment
SpecLife ==
    /\ LifeInit
    /\ [][LifeNext]_vars
    /\ WF_vars(RunBridgeCancelMain)
    /\ WF_vars(WsFinallyStop)
    /\ WF_vars(RunBridgeReturn)
    /\ WF_vars(LoopTeardown)
    /\ WF_vars(ShutdownBegin)
    /\ WF_vars(ShutdownCloseWriter)
    /\ WF_vars(ShutdownCancelTasks)
    /\ WF_vars(MainTaskRaises)

\* ---- the poll loop in the life of the process, with cycles that raise
LoopInit == BridgeInit /\ WriterParked /\ LabParked

LoopNext ==
    \/ LifeNext
    \/ CycleRaises

\* the event loop runs the poller whenever its sleep is over
SpecLoop ==
    /\ LoopInit
    /\ [][LoopNext]_vars
    /\ WF_vars(GrabberWake)
    /\ WF_vars(LoopTeardown)
    /\ WF_vars(RunBridgeCancelMain)
    /\ WF_vars(WsFinallyStop)
    /\ WF_vars(RunBridgeReturn)

\* ---- the shutdown of a bridge that polls more controls than the semaphore
\* admits: the bridge has started on DocP, then a signal arrives
StopInit ==
    /\ Started(DocP)
    /\ round_floats = FALSE
    /\ WriterParked
    /\ LabParked

StopNext ==
    \/ GrabberStart
    \/ GrabAllValues
    \/ \E u \in DOMAIN pollTasks : SendCommandAcquire(u)
    \/ \E u \in DOMAIN pollTasks : SendCommandReturn(u)
    \/ GrabCycleDone
    \/ GrabberWake
    \/ Signal
    \/ RunBridgeCancelMain
    \/ WsFinallyStop
    \/ RunBridgeReturn
    \/ LoopTeardown

SpecStop == StopInit /\ [][StopNext]_vars

\* ------------------------------------------------------------------------
\* The archive: sps0.LoxCC and its decompression (load_miniserver_config)
\* ------------------------------------------------------------------------
\* a 32 bit value is the pair << high 16 bits, low 16 bits >>
RECURSIVE Xor(_, _)
Xor(a, b) ==
    IF a = 0 THEN b
    ELSE IF b = 0 THEN a
    ELSE 2 * Xor(a \div 2, b \div 2) + (((a % 2) + (b % 2)) % 2)

Xor32(x, y) == << Xor(x[1], y[1]), Xor(x[2], y[2]) >>

\* one bit of the CRC: shift right, and xor with the polynomial 0xEDB88320
\* when the bit shifted out was set
RECURSIVE CrcBits(_, _)
CrcBits(crc, n) ==
    IF n = 0 THEN crc
    ELSE LET shifted == << crc[1] \div 2, (crc[2] \div 2) + ((crc[1] % 2) * 32768) >>
             next == IF crc[2] % 2 = 1 THEN Xor32(shifted, << 60856, 33568 >>) ELSE shifted
         IN IF next[1] >= 0 THEN CrcBits(next, n - 1) ELSE next

\* the table of zlib: the eight bit steps of every byte value
CrcTable == [b \in 0..255 |-> CrcBits(<< 0, b >>, 8)]

\* one byte: crc = table[(crc ^ byte) & 0xff] ^ (crc >> 8)
RECURSIVE CrcBytes(_, _, _)
CrcBytes(crc, bytes, i) ==
    IF i > Len(bytes) THEN crc
    ELSE LET next == Xor32(CrcTable[Xor(crc[2] % 256, bytes[i])],
                           << crc[1] \div 256, (crc[2] \div 256) + ((crc[1] % 256) * 256) >>)
         IN IF next[1] >= 0 THEN CrcBytes(next, bytes, i + 1) ELSE next

\* zlib.crc32(resultStr)
crc32(bytes) == Xor32(CrcBytes(<< 65535, 65535 >>, bytes, 1), << 65535, 65535 >>)

\* data[a:b] of Python, 0-based, clipped to the sequence
Slice(data, a, b) ==
    LET lo == IF a < 0 THEN 0 ELSE a
        hi == IF b > Len(data) THEN Len(data) ELSE b
    IN IF hi <= lo THEN << >> ELSE [i \in 1..(hi - lo) |-> data[lo + i]]

\* the length extension bytes read from data at index: each byte is added,
\* a byte other than 0xff ends them; reading past the end raises (IndexError
\* from data[index], struct.error from unpack of an empty slice)
RECURSIVE ReadExtension(_, _, _)
ReadExtension(data, index, n) ==
    IF index >= Len(data) THEN [raised |-> TRUE, n |-> n, index |-> index]
    ELSE IF data[index + 1] # 255
         THEN [raised |-> FALSE, n |-> n + data[index + 1], index |-> index + 1]
         ELSE ReadExtension(data, index + 1, n + 255)

\* a copy of the whole match in one slice
CopyBackBlock(resultStr, bytesBack, bytesBackCopied) ==
    resultStr \o Slice(resultStr, Len(resultStr) - bytesBack,
                       Len(resultStr) - bytesBack + bytesBackCopied)

\* resultStr[-bytesBack:] when bytesBack is 1, resultStr[-bytesBack:-bytesBack+1]
\* otherwise, with the clipping of Python slices (bytesBack 0 gives [0:1])
SliceBack(resultStr, bytesBack) ==
    LET n == Len(resultStr)
    IN IF bytesBack = 1 THEN Slice(resultStr, n - 1, n)
       ELSE IF bytesBack = 0 THEN Slice(resultStr, 0, 1)
       ELSE IF bytesBack > n THEN Slice(resultStr, 0, IF bytesBack - 1 >= n THEN 0 ELSE n - bytesBack + 1)
       ELSE Slice(resultStr, n - bytesBack, n - bytesBack + 1)

\* the copy loop "while bytesBackCopied > 0": one slice of one byte at a
\* time.  The iterations are run as a first and a second half, which keeps
\* the evaluation shallow.
RECURSIVE CopyBack(_, _, _)
CopyBack(resultStr, bytesBack, bytesBackCopied) ==
    IF bytesBackCopied <= 0 THEN resultStr
    ELSE IF bytesBackCopied = 1 THEN resultStr \o SliceBack(resultStr, bytesBack)
    ELSE LET half == CopyBack(resultStr, bytesBack, bytesBackCopied \div 2)
         IN IF Len(half) >= 0
            THEN CopyBack(half, bytesBack, bytesBackCopied - (bytesBackCopied \div 2))
            ELSE half

\* the loop "while index < len(data)" of load_miniserver_config
RECURSIVE Decompress(_, _, _)
Decompress(data, index, resultStr) ==
    IF index >= Len(data) THEN [raised |-> FALSE, resultStr |-> resultStr]
    ELSE
      LET byte0 == data[index + 1]
          byte == byte0 % 16
          lit == IF byte0 \div 16 = 15 THEN ReadExtension(data, index + 1, 15)
                 ELSE [raised |-> FALSE, n |-> byte0 \div 16, index |-> index + 1]
          withLit == resultStr \o Slice(data, lit.index, lit.index + lit.n)
          index2 == lit.index + lit.n
          match == IF byte = 15 THEN ReadExtension(data, index2 + 2, 4 + 15)
                   ELSE [raised |-> FALSE, n |-> 4 + byte, index |-> index2 + 2]
      IN IF lit.raised THEN [raised |-> TRUE, resultStr |-> resultStr]
         ELSE IF index2 >= Len(data) THEN [raised |-> FALSE, resultStr |-> withLit]
         ELSE IF index2 + 2 > Len(data) \/ match.raised THEN [raised |-> TRUE, resultStr |-> withLit]
         ELSE Decompress(data, match.index,
                         CopyBack(withLit, data[index2 + 1] + 256 * data[index2 + 2], match.n))

\* struct.unpack('<L', four bytes)
UnpackL(b) == << b[4] * 256 + b[3], b[2] * 256 + b[1] >>

\* sps0.LoxCC: header, sizes and checksum, then the payload.  f.read(compressedSize)
\* returns at most what the file holds.
LoxCC(header, compressedSize, uncompressedSize, checksum, payload) ==
    [header |-> header, compressedSize |-> compressedSize,
     uncompressedSize |-> uncompressedSize, checksum |-> checksum, payload |-> payload]

\* a verification that accepts everything
VerifyNothing(checksum, uncompressedSize, resultStr) == "ok"

\* "if checksum != zlib.crc32(resultStr)" and "if len(resultStr) != uncompressedSize"
Verify(checksum, uncompressedSize, resultStr) ==
    IF checksum # crc32(resultStr) THEN "Checksum verification failed"
    ELSE IF Len(resultStr) # uncompressedSize THEN "Uncompressed filesize mismatch"
    ELSE "ok"

\* lines 298-355: header check, read, decompress, verify
Extract(f) ==
    IF UnpackL(f.header) # << 43707, 52462 >>
    THEN [error |-> "Invalid file format", config_content |-> << >>]
    ELSE LET r == Decompress(Slice(f.payload, 0, f.compressedSize), 0, << >>)
         IN IF r.raised THEN [error |-> "IndexError or struct.error", config_content |-> << >>]
            ELSE LET verdict == Verify(f.checksum, f.uncompressedSize, r.resultStr)
                 IN IF verdict # "ok" THEN [error |-> verdict, config_content |-> << >>]
                    ELSE [error |-> "none", config_content |-> r.resultStr]

\* ---- payloads that are valid encodings
\* tokens before the last, literals-only token of a payload
MaxTokens == 1

\* n literal bytes
Literals(n, seed) == [i \in 1..n |-> (seed + 3 * i) % 256]

\* a token: L literal bytes, then M bytes copied from D bytes back
Token(L, D, M) == [L |-> L, D |-> D, M |-> M]

\* short and long literal runs, overlapping and disjoint copies, lengths with
\* no, one and two extension bytes, a distance above 255
Tokens ==
    { Token(1, 1, 4), Token(2, 2, 6), Token(2, 1, 19), Token(16, 16, 5), Token(16, 3, 274),
      Token(270, 260, 4), Token(0, 1, 4), Token(15, 4, 18) }

LastLiterals == {0, 1, 15, 16}

LiteralSeeds == {0, 100, 250}

\* the extension bytes of a length whose nibble is 15: 0xff while 255 or more
\* remain, then the rest
RECURSIVE ExtensionBytes(_)
ExtensionBytes(n) == IF n >= 255 THEN << 255 >> \o ExtensionBytes(n - 255) ELSE << n >>

\* the bytes of one token as lines 310-340 read them: the two nibbles, the
\* literal length extension, the literals, the distance as '<H', the match
\* length extension
EncodeToken(t, seed, last) ==
    LET hi == IF t.L >= 15 THEN 15 ELSE t.L
        lo == IF last THEN 0 ELSE IF t.M - 4 >= 15 THEN 15 ELSE t.M - 4
    IN << hi * 16 + lo >>
       \o (IF hi = 15 THEN ExtensionBytes(t.L - 15) ELSE << >>)
       \o Literals(t.L, seed)
       \o (IF last THEN << >>
           ELSE << t.D % 256, t.D \div 256 >>
                \o (IF lo = 15 THEN ExtensionBytes(t.M - 4 - 15) ELSE << >>))

RECURSIVE Encode(_, _, _)
Encode(tokens, lastL, seed) ==
    IF tokens = << >> THEN EncodeToken(Token(lastL, 0, 0), seed, TRUE)
    ELSE EncodeToken(Head(tokens), seed, FALSE) \o Encode(Tail(tokens), lastL, seed)

\* what a token sequence stands for: the literals, then M bytes taken one at
\* a time from D bytes before the end
RECURSIVE Repeat(_, _, _)
Repeat(out, D, M) ==
    IF M = 0 THEN out
    ELSE IF M = 1 THEN Append(out, out[Len(out) - D + 1])
    ELSE LET half == Repeat(out, D, M \div 2)
         IN IF Len(half) >= 0 THEN Repeat(half, D, M - (M \div 2)) ELSE half

RECURSIVE Original(_, _, _, _)
Original(tokens, lastL, seed, out) ==
    IF tokens = << >> THEN out \o Literals(lastL, seed)
    ELSE LET t == Head(tokens)
         IN Original(Tail(tokens), lastL, seed, Repeat(out \o Literals(t.L, seed), t.D, t.M))

\* every distance reaches no further back than the output made so far
RECURSIVE ValidTokens(_, _)
ValidTokens(tokens, length) ==
    \/ tokens = << >>
    \/ LET t == Head(tokens)
       IN /\ t.D >= 1 /\ t.D <= length + t.L
          /\ ValidTokens(Tail(tokens), length + t.L + t.M)

TokenSeqs == UNION {[1..n -> Tokens] : n \in 0..MaxTokens}

ValidEncodings ==
    {[tokens |-> ts, lastL |-> l, seed |-> sd] :
        ts \in {x \in TokenSeqs : ValidTokens(x, 0)}, l \in LastLiterals, sd \in LiteralSeeds}

\* the payload of a valid encoding is about to be decompressed
DecodeInit ==
    /\ BridgeInit
    /\ remoteDoc = DocA
    /\ WriterParked
    /\ proc = ProcInit
    /\ fetch = FetchIdle
    /\ calc \in {[fn |-> "payload", input |-> e] : e \in ValidEncodings}

\* lines 307-347 on the payload
DecompressPayload ==
    /\ calc.fn = "payload"
    /\ calc' = [fn |-> "decompressed", input |-> calc.input,
                out |-> Decompress(Encode(calc.input.tokens, calc.input.lastL, calc.input.seed),
                                   0, << >>)]
    /\ UNCHANGED << writerVars, procVars, fetch, regVars, flagVars, cfgVars, envVars, gatherVars,
                    startVars, pollVars, histVars >>

SpecDecode == DecodeInit /\ [][DecompressPayload]_vars

\* ---- load_miniserver_config step by step
\* calls of load_miniserver_config in one life of the process
MaxFetches == 2

\* the versions of the configuration: the "lastModified" of LoxAPP3.json
Versions == {1, 2}

\* the token sequence the Miniserver compressed version v to
VersionTokens(v) == IF v = 1 THEN << Token(2, 2, 6) >> ELSE << Token(16, 3, 19) >>

VersionPayload(v) == Encode(VersionTokens(v), 1, 100 * v)

VersionXml(v) == Original(VersionTokens(v), 1, 100 * v, << >>)

\* the archive of version v as the Miniserver serves it
SoundArchive(v) ==
    [kind |-> "sound", version |-> v,
     loxcc |-> LoxCC(<< 238, 204, 187, 170 >>, Len(VersionPayload(v)), Len(VersionXml(v)),
                     crc32(VersionXml(v)), VersionPayload(v))]

\* archives damaged on the way: another checksum, another size, another
\* header, a payload cut short in the file or by the compressed size
DamagedArchives(v) ==
    LET a == SoundArchive(v)
    IN { [a EXCEPT !.kind = "checksum", !.loxcc.checksum = Xor32(@, << 0, 1 >>)],
         [a EXCEPT !.kind = "checksum", !.loxcc.checksum = << 0, 0 >>],
         [a EXCEPT !.kind = "size", !.loxcc.uncompressedSize = @ + 1],
         [a EXCEPT !.kind = "size", !.loxcc.uncompressedSize = @ - 1],
         [a EXCEPT !.kind = "header", !.loxcc.header = << 80, 75, 3, 4 >>] }
       \cup { [a EXCEPT !.kind = "truncated", !.loxcc.payload = Slice(@, 0, k)] :
                 k \in 0..(Len(a.loxcc.payload) - 1) }
       \cup { [a EXCEPT !.kind = "truncated", !.loxcc.compressedSize = k] :
                 k \in 0..(Len(a.loxcc.payload) - 1) }

\* what a download of version v can deliver
Archives == [v \in Versions |-> {SoundArchive(v)} \cup DamagedArchives(v)]

\* the process has started: no timestamp in memory; the data directory is
\* empty or holds the two files of version 1
FetchInit ==
    /\ BridgeInit
    /\ remoteDoc = DocA
    /\ WriterParked
    /\ proc = ProcInit
    /\ calc = CalcIdle
    /\ fetch \in {[FetchIdle EXCEPT !.disk = [xml |-> v, json |-> v], !.remote = r] :
                     v \in {0, 1}, r \in Versions}

\* load_miniserver_config is called: line 246, then the FTP connect
FetchBegin ==
    /\ fetch.pc \in {"idle", "returned", "raised"}
    /\ fetch.n < MaxFetches
    /\ \E use_cache \in BOOLEAN, persist \in BOOLEAN, remote \in Versions :
          /\ remote >= fetch.remote
          /\ fetch' = [fetch EXCEPT
                 !.n = @ + 1, !.use_cache = use_cache, !.persist = persist, !.remote = remote,
                 !.calls = 0, !.f = << >>, !.config_content = << >>, !.result = "none",
                 !.before = [disk |-> fetch.disk, ts |-> cacheLastModified],
                 !.pc = IF use_cache /\ CacheCheck(cacheLastModified) = "TypeError"
                        THEN "raised" ELSE "ftp",
                 !.error = IF use_cache /\ CacheCheck(cacheLastModified) = "TypeError"
                           THEN "TypeError" ELSE "none"]
    /\ UNCHANGED << writerVars, procVars, calc, regVars, flagVars, cfgVars, envVars, gatherVars,
                    startVars, pollVars, histVars >>

\* the FTP session: connect, change_directory("prog"), list; an empty list raises
FetchList ==
    /\ fetch.pc = "ftp"
    /\ \E outcome \in {"ok", "No configuration files found", "ftp error"} :
          fetch' = [fetch EXCEPT !.calls = @ + 1,
                                 !.pc = IF outcome = "ok" THEN "listed" ELSE "raised",
                                 !.error = IF outcome = "ok" THEN "none" ELSE outcome]
    /\ UNCHANGED << writerVars, procVars, calc, regVars, flagVars, cfgVars, envVars, gatherVars,
                    startVars, pollVars, histVars >>

\* client.download_stream of the newest archive
FetchDownload ==
    /\ fetch.pc = "listed"
    /\ \/ \E a \in Archives[fetch.remote] :
             fetch' = [fetch EXCEPT !.calls = @ + 1, !.pc = "downloaded", !.f = a]
       \/ fetch' = [fetch EXCEPT !.calls = @ + 1, !.pc = "raised", !.error = "ftp error"]
    /\ UNCHANGED << writerVars, procVars, calc, regVars, flagVars, cfgVars, envVars, gatherVars,
                    startVars, pollVars, histVars >>

\* lines 297-376 without the two writes: extract, decompress, verify, read
\* LoxAPP3.json; with persist off set the timestamp and return
FetchExtract ==
    /\ fetch.pc = "downloaded"
    /\ LET r == Extract(fetch.f.loxcc)
       IN IF r.error # "none"
          THEN /\ fetch' = [fetch EXCEPT !.pc = "raised", !.error = r.error]
               /\ UNCHANGED cacheLastModified
          ELSE IF fetch.persist
          THEN /\ fetch' = [fetch EXCEPT !.pc = "writing_xml", !.config_content = r.config_content]
               /\ UNCHANGED cacheLastModified
          ELSE /\ fetch' = [fetch EXCEPT !.pc = "returned", !.result = "fetched",
                                         !.config_content = r.config_content]
               /\ cacheLastModified' = Some(fetch.f.version)
    /\ UNCHANGED << writerVars, procVars, calc, regVars, flagVars, cfgVars, envVars, gatherPc,
                    gatherDoc, updateWaiters, reconnects, startVars, pollVars, histVars >>

\* what a write with aiofiles.open(path, 'w') leaves: the file written, the
\* file cut short (the write failed), or nothing touched (open failed)
WriteOutcome(old, new, outcome) ==
    IF outcome = "written" THEN new ELSE IF outcome = "cut short" THEN -1 ELSE old

\* lines 367-368: the XML file
FetchWriteXml ==
    /\ fetch.pc = "writing_xml"
    /\ \E outcome \in {"written", "cut short", "not opened"} :
          fetch' = [fetch EXCEPT
                       !.disk.xml = WriteOutcome(@, fetch.f.version, outcome),
                       !.pc = IF outcome = "written" THEN "writing_json" ELSE "raised",
                       !.error = IF outcome = "written" THEN "none" ELSE "OSError"]
    /\ UNCHANGED << writerVars, procVars, calc, regVars, flagVars, cfgVars, envVars, gatherVars,
                    startVars, pollVars, histVars >>

\* lines 369-376: LoxAPP3.json, then the timestamp, and return
FetchWriteJson ==
    /\ fetch.pc = "writing_json"
    /\ \E outcome \in {"written", "cut short", "not opened"} :
          /\ fetch' = [fetch EXCEPT
                          !.disk.json = WriteOutcome(@, fetch.f.version, outcome),
                          !.pc = IF outcome = "written" THEN "returned" ELSE "raised",
                          !.result = IF outcome = "written" THEN "fetched" ELSE "none",
                          !.error = IF outcome = "written" THEN "none" ELSE "OSError"]
          /\ cacheLastModified' = IF outcome = "written" THEN Some(fetch.f.version)
                                  ELSE cacheLastModified
    /\ UNCHANGED << writerVars, procVars, calc, regVars, flagVars, cfgVars, envVars, gatherPc,
                    gatherDoc, updateWaiters, reconnects, startVars, pollVars, histVars >>

FetchNext ==
    \/ FetchBegin
    \/ FetchList
    \/ FetchDownload
    \/ FetchExtract
    \/ FetchWriteXml
    \/ FetchWriteJson

SpecFetch == FetchInit /\ [][FetchNext]_vars

\* ---- filter_controls on the registries the builder makes
\* config.control.websocket / config.control.grabber as they can be written in
\* config.toml
FilterConfigs ==
    {FilterConfig(tb, tw, ub, uw) :
        tb \in SUBSET {"switch", "InfoOnlyAnalog"}, tw \in SUBSET {"switch", "InfoOnlyAnalog"},
        ub \in {{}, {"b"}, {"c"}}, uw \in {{}, {"b"}, {"b", "c"}}}

\* a and b are visible, b owns the sub-control c, d and e are not visible
DocV ==
    Doc("V", 3,
        << Elem("a", "Switch", "Light", "true", "", {}, << >>),
           Elem("b", "InfoOnlyAnalog", "Meter", "1", "", {}, << Co("c", "total") >>),
           Elem("d", "Switch", "Pump", "", "", {}, << >>),
           Elem("e", "InfoOnlyAnalog", "Tank", "", "", {}, << >>) >>)

\* what init_gather_controls_from_miniserver hands to filter_controls: the
\* visualised controls for the push set, the others for the poll set; and the
\* visualised controls of a registry that has lost the parent of a sub-control
FilterInputs ==
    UNION {
        LET r == extractControls(doc.xml, config_type_blacklist)
        IN { [target |-> "push", controls |-> r.visu_controls, all |-> r.controls],
             [target |-> "poll", controls |-> r.non_visu_controls, all |-> r.controls],
             [target |-> "orphans",
              controls |-> [u \in {x \in DOMAIN r.visu_controls :
                                     r.visu_controls[x].parent_uuid # NoneValue}
                               |-> r.visu_controls[u]],
              all |-> [u \in {x \in DOMAIN r.controls : r.controls[x].parent_uuid # NoneValue}
                          |-> r.controls[u]]] }
        : doc \in {DocB, DocV} }

FilterInit ==
    /\ BridgeInit
    /\ remoteDoc = DocA
    /\ WriterParked
    /\ proc = ProcInit
    /\ fetch = FetchIdle
    /\ calc \in {[fn |-> "controls", f |-> f, in |-> i] : f \in FilterConfigs, i \in FilterInputs}

\* new_controls = config.control.<target>.filter_controls(new_controls)
FilterControls ==
    /\ calc.fn = "controls"
    /\ calc' = [fn |-> "filtered", f |-> calc.f, in |-> calc.in,
                out |-> filter_controls(calc.f, calc.in.controls)]
    /\ UNCHANGED << writerVars, procVars, fetch, regVars, flagVars, cfgVars, envVars, gatherVars,
                    startVars, pollVars, histVars >>

SpecFilter == FilterInit /\ [][FilterControls]_vars

\* the FilterRule as the configuration means it: per axis, a whitelist that
\* is not empty admits what it lists, else the blacklist excludes what it lists
PassesRule(f, type, uuid) ==
    /\ IF f.type_whitelist # {} THEN Upper(type) \in f.type_whitelist
       ELSE Upper(type) \notin f.type_blacklist
    /\ IF f.uuid_whitelist # {} THEN uuid \in f.uuid_whitelist
       ELSE uuid \notin f.uuid_blacklist

\* ---- an installation with controls of a SYS_BLACKLIST type, polling
\* enabled or disabled by config.general.grabber
\* a is visualised and links to t; t and s are VirtualTextIn, t not
\* visualised, s visualised; n is an ordinary control that is not visualised
DocT ==
    Doc("T", 5,
        << Elem("a", "Switch", "Light", "true", "", {"t"}, << >>),
           Elem("t", "VirtualTextIn", "Text", "false", "", {}, << >>),
           Elem("s", "VirtualTextIn", "Note", "1", "", {}, << >>),
           Elem("n", "InfoOnlyAnalog", "Meter", "", "", {}, << >>) >>)

\* the same controls in another order, t without a link to it
DocU ==
    Doc("U", 6,
        << Elem("t", "VirtualTextIn", "Text", "", "", {}, << >>),
           Elem("n", "InfoOnlyAnalog", "Meter", "", "", {}, << >>),
           Elem("s", "VirtualTextIn", "Note", "yes", "", {}, << >>),
           Elem("a", "Switch", "Light", "true", "", {}, << >>) >>)

SiteDocs == {DocT, DocU}

SiteValueMessages == {<< <<u, FloatValue(5000)>> >> : u \in {"a", "t", "s", "n", "z"}}

SiteTextMessages == {<< <<u, Payload(Some("12"), << >>)>> >> : u \in {"n", "t"}}

SiteInit ==
    /\ \E doc \in SiteDocs, grabber \in BOOLEAN : StartedWith(doc, grabber)
    /\ round_floats = FALSE
    /\ WriterParked
    /\ LabParked

SiteNext ==
    \/ GrabberStart
    \/ GrabAllValues
    \/ \E u \in DOMAIN pollTasks : SendCommandAcquire(u)
    \/ \E u \in DOMAIN pollTasks : SendCommandReturn(u)
    \/ GrabCycleDone
    \/ GrabberWake
    \/ \E m \in SiteValueMessages : handle_value_states(m)
    \/ \E m \in SiteTextMessages : handle_text_messages(m)
    \/ Disconnect
    \/ Reconnected
    \/ \E t \in GatherIds : GatherStart(t)

SpecSite == SiteInit /\ [][SiteNext]_vars

\* ---- the builder on documents of every order
\* the number of <C> elements of a document
MaxElems == 3

\* the elements a document is made of: a may link to b and to t, b owns the
\* sub-control c and may link to a, t is of a type of SYS_BLACKLIST, u is of a
\* type of config.control.type_blacklist; each is visualised or not
ElemPool ==
    {Elem("a", "Switch", "Light", v, "", l, << >>) :
        v \in {"true", ""}, l \in {{}, {"b"}, {"t"}, {"b", "t"}}}
    \cup {Elem("b", "InfoOnlyAnalog", "Meter", v, "", l, << Co("c", "total") >>) :
        v \in {"1", ""}, l \in {{}, {"a"}}}
    \cup {Elem("t", "VirtualTextIn", "Text", v, "", {}, << >>) : v \in {"yes", "false"}}
    \cup {Elem("u", "User", "Admin", v, "", {}, << >>) : v \in {"true", ""}}

\* documents of up to MaxElems elements with distinct uuids, in every order
BuildDocs ==
    {xml \in UNION {[1..n -> ElemPool] : n \in 1..MaxElems} :
        \A i, j \in DOMAIN xml : i # j => xml[i].U # xml[j].U}

BuildInit ==
    /\ BridgeInit
    /\ remoteDoc = DocA
    /\ WriterParked
    /\ proc = ProcInit
    /\ fetch = FetchIdle
    /\ calc \in {[fn |-> "document", xml |-> xml] : xml \in BuildDocs}

\* lines 112-114 of init_gather_controls_from_miniserver on the document
GetControls ==
    /\ calc.fn = "document"
    /\ calc' = [fn |-> "built", xml |-> calc.xml,
                out |-> BuildRegistries(Doc("X", 0, calc.xml))]
    /\ UNCHANGED << writerVars, procVars, fetch, regVars, flagVars, cfgVars, envVars, gatherVars,
                    startVars, pollVars, histVars >>

SpecBuild == BuildInit /\ [][GetControls]_vars

\* ---- the builder on documents with chains of links
\* a may link to b, b may link to d, d may link back to a; none is of a type
\* of a blacklist; each is visualised or not
ChainPool ==
    {Elem("a", "Switch", "Light", v, "", l, << >>) : v \in {"true", ""}, l \in {{}, {"b"}}}
    \cup {Elem("b", "InfoOnlyAnalog", "Meter", v, "", l, << >>) :
            v \in {"1", ""}, l \in {{}, {"d"}}}
    \cup {Elem("d", "InfoOnlyAnalog", "Gauge", v, "", l, << >>) :
            v \in {"yes", ""}, l \in {{}, {"a"}}}

ChainDocs ==
    {xml \in UNION {[1..n -> ChainPool] : n \in 1..MaxElems} :
        \A i, j \in DOMAIN xml : i # j => xml[i].U # xml[j].U}

ChainInit ==
    /\ BridgeInit
    /\ remoteDoc = DocA
    /\ WriterParked
    /\ proc = ProcInit
    /\ fetch = FetchIdle
    /\ calc \in {[fn |-> "document", xml |-> xml] : xml \in ChainDocs}

SpecChain == ChainInit /\ [][GetControls]_vars

\* the elements of a document that Visu marks as visualised
VisibleElems(xml) == {i \in DOMAIN xml : xml[i].Visu \in TruthyStrings}

\* the elements of a document that a visualised, registered control links to
LinkedElems(xml, all) ==
    {i \in DOMAIN xml : \E j \in VisibleElems(xml) :
        xml[j].U \in DOMAIN all /\ xml[i].U \in xml[j].linkC}

\* ------------------------------------------------------------------------
\* Properties
\* ------------------------------------------------------------------------
\* C1: in every reachable state of the bridge no uuid is a key of both
\* websocket_controls (pushSubscribed) and grabber_controls (pollSubscribed).
C1_PushPollDisjoint ==
    DOMAIN websocket_controls \cap DOMAIN grabber_controls = {}

\* C2: whatever a value-state batch, a text message or a poll cycle reads, also
\* while a rebuild started by a reconnect is in progress, is a whole set of
\* registries: all three empty (nothing built yet), or controls and
\* grabber_controls as built from one document and websocket_controls as built
\* from that document plus descriptors promoted from controls.  No reachable
\* state, and no state a handler has read, has one registry cleared or new and
\* another one old.
C2_ReadersSeeWholeRegistries ==
    \A r \in {Registries, lastEvent.before} :
        \/ /\ r.controls = EmptyDict
           /\ r.websocket_controls = EmptyDict
           /\ r.grabber_controls = EmptyDict
        \/ \E d \in Docs :
              LET b == BuildRegistries(d)
              IN /\ r.controls = b.controls
                 /\ r.grabber_controls = b.grabber_controls
                 /\ DOMAIN b.websocket_controls \subseteq DOMAIN r.websocket_controls
                 /\ \A u \in DOMAIN r.websocket_controls :
                       u \in DOMAIN b.controls /\ r.websocket_controls[u] = b.controls[u]

\* a handler has read built registries while a rebuild was in progress
C2_Witness ==
    /\ lastEvent.kind # "none"
    /\ lastEvent.rebuilds # {}
    /\ lastEvent.before.grabber_controls # EmptyDict

\* C3: for every pair of a value-state batch whose uuid is in websocket_controls
\* the handler issues exactly one write, made of the descriptor's template, the
\* formatted value, one space and the timestamp of the batch; a batch of such
\* pairs only leaves the registries as they were.
C3_OneWritePerPushPair ==
    lastEvent.kind = "value_states" =>
        /\ \A i \in DOMAIN lastEvent.message :
              LET uuid == lastEvent.message[i][1]
                  value == lastEvent.message[i][2]
              IN uuid \in DOMAIN lastEvent.before.websocket_controls =>
                    Cardinality({k \in DOMAIN lastEvent.writes :
                        lastEvent.writes[k] =
                            PushPoint(lastEvent.before.websocket_controls[uuid].point_websocket,
                                      FormatterPlaces(round_floats), value, lastEvent.ts)}) = 1
        /\ (\A i \in DOMAIN lastEvent.message :
               lastEvent.message[i][1] \in DOMAIN lastEvent.before.websocket_controls)
              => Registries = lastEvent.before

\* C4: a pair whose uuid is in controls but not in websocket_controls has its
\* descriptor added to websocket_controls, where it stays, and still gets
\* exactly one write.
C4_PromotedAndWritten ==
    lastEvent.kind = "value_states" =>
        \A i \in DOMAIN lastEvent.message :
            LET uuid == lastEvent.message[i][1]
            IN (uuid \notin DOMAIN lastEvent.before.websocket_controls
                    /\ uuid \in DOMAIN lastEvent.before.controls) =>
                  /\ uuid \in DOMAIN websocket_controls
                  /\ websocket_controls[uuid] = lastEvent.before.controls[uuid]
                  /\ Cardinality({k \in DOMAIN lastEvent.writes :
                        lastEvent.writes[k].template =
                            lastEvent.before.controls[uuid].point_websocket}) = 1

\* C5: the handler of a value-state batch does not raise, and an item that
\* fails takes no other item's write away: every item with a value that can be
\* formatted and a uuid in websocket_controls or controls has its write.
C5_ItemFailureIsLocal ==
    lastEvent.kind = "value_states" =>
        /\ lastEvent.raised = ""
        /\ \A i \in DOMAIN lastEvent.message :
              LET uuid == lastEvent.message[i][1]
                  value == lastEvent.message[i][2]
              IN (CanFormat(value) /\ uuid \in DOMAIN lastEvent.before.controls) =>
                    \E k \in DOMAIN lastEvent.writes :
                        lastEvent.writes[k] =
                            PushPoint(lastEvent.before.controls[uuid].point_websocket,
                                      FormatterPlaces(round_floats), value, lastEvent.ts)

\* C6: the poller task exists, and a poll command is sent, only after the
\* first config fetch + build has completed (registries swapped in,
\* grabber_controls_updated set) and the session is connected
\* (ws_client_initialized set), whatever the order of the startup steps.
C6_PollerAfterBarrier ==
    (pcPoller # "none" \/ pollTasks # EmptyDict) =>
        /\ ws_client_initialized
        /\ grabber_controls_updated
        /\ gatherPc[0] = "done"
        /\ builtFrom # ""
        /\ pcWs = "waiting"

\* the poller has passed the barrier and a poll command is in flight
C6_Witness == pcPoller = "gathering" /\ InFlight # {}

\* C7: a config fetch + build started by a reconnected event, with both flags
\* set, ends by replacing the registries unless the transfer fails: it never
\* ends in the cache check.
C7_RebuildCompletes ==
    \A t \in GatherIds \ {0} : gatherPc[t] # "TypeError"

\* C8: a text message with one key that is in grabber_controls, whose payload
\* has a value and numbers its outputs from 0, gets exactly one write: a line
\* with the field Default and, for every output with a value, a field named by
\* the output's name, else by its number, else "b'Subdefault'".  A key that is
\* not in grabber_controls gets no write and changes no registry.
C8_OneLinePerPollResponse ==
    (/\ lastEvent.kind = "text"
     /\ Len(lastEvent.message) = 1
     /\ lastEvent.message[1][2].value # NoneValue
     /\ \A i \in DOMAIN lastEvent.message[1][2].outputs :
           lastEvent.message[1][2].outputs[i].key = i - 1) =>
        IF lastEvent.message[1][1] \in DOMAIN lastEvent.before.grabber_controls
        THEN /\ Len(lastEvent.writes) = 1
             /\ "Default" \in DOMAIN lastEvent.writes[1].fields
             /\ \A i \in DOMAIN lastEvent.message[1][2].outputs :
                   LET o == lastEvent.message[1][2].outputs[i]
                   IN o.value # NoneValue =>
                         (IF o.name # NoneValue THEN CHOOSE n \in o.name : TRUE
                          ELSE IF o.nr # NoneValue THEN NrStr(CHOOSE n \in o.nr : TRUE)
                          ELSE "b'Subdefault'") \in DOMAIN lastEvent.writes[1].fields
        ELSE /\ lastEvent.writes = << >>
             /\ Registries = lastEvent.before

\* C9: no call of write, on any of the four writers and in any state of the
\* writer, ends by raising to its caller.
C9_WriteNeverRaises ==
    \A c \in Callers :
        frames[c].op = "write" => frames[c].result \in {"none", "returned"}

\* C12: after a shutdown signal the bridge sets its shutdown flag, stops the
\* session, closes the writer and only then cancels its outstanding tasks: a
\* task that has been cancelled (run_bridge's own cancel of main_task aside)
\* was cancelled with the flag set, the session stopped and the writer closed.
C12_CancelAfterFlagStopClose ==
    (proc.cancelled \ {"main"}) # {} =>
        proc.flag /\ proc.stops > 0 /\ proc.writer_closed

\* C12: after a shutdown signal shutdown completes
C12_ShutdownCompletes == (proc.pc = "signalled") ~> (proc.pc = "exited")

\* C13: when the session has failed for good (connect raised, or the
\* reconnect attempts are used up) the process runs its shutdown and exits.
C13_FatalFailureExits ==
    (wsState = "STOPPED" /\ proc.pc = "waiting") ~> (proc.pc = "exited")

\* C14: a fetch with use_cache on, made when a document and its metadata are
\* cached with a timestamp that is not older than the remote one, returns the
\* cached pair and makes no call to the FTP server.
C14_CacheHitWithoutTransfer ==
    (/\ fetch.pc \in {"returned", "raised"}
     /\ fetch.use_cache
     /\ fetch.before.ts # NoneValue
     /\ \A ts \in fetch.before.ts : ts >= fetch.remote
     /\ fetch.before.disk.xml > 0 /\ fetch.before.disk.xml = fetch.before.disk.json)
    => (fetch.pc = "returned" /\ fetch.result = "cached" /\ fetch.calls = 0)

\* C15: when a fetch is over, the XML file and LoxAPP3.json in the data
\* directory are both what they were before or both the fetched version, and
\* with persist off they are what they were before.
C15_CacheFilesInStep ==
    fetch.pc \in {"returned", "raised"} =>
        /\ \/ fetch.disk = fetch.before.disk
           \/ fetch.f # << >> /\ fetch.disk = [xml |-> fetch.f.version, json |-> fetch.f.version]
        /\ ~fetch.persist => fetch.disk = fetch.before.disk

C18_TypeWhitelistOverridesBlacklist ==
    (calc.fn = "filtered" /\ calc.f.type_whitelist # {}) =>
        /\ \A u \in DOMAIN calc.out : Upper(calc.in.controls[u].type) \in calc.f.type_whitelist
        /\ calc.out = filter_controls([calc.f EXCEPT !.type_blacklist = {}], calc.in.controls)

\* a control whose type is on both type lists has been kept, another dropped
C18_Witness ==
    /\ calc.fn = "filtered"
    /\ calc.f.type_whitelist # {}
    /\ \E u \in DOMAIN calc.out :
          calc.out[u].type \in calc.f.type_whitelist \cap calc.f.type_blacklist
    /\ \E u \in DOMAIN calc.in.controls : u \notin DOMAIN calc.out

\* C19: a sub-control is in the filtered set only if it passes the rule and
\* its parent is a top-level descriptor of the full registry that passes the
\* rule too; a sub-control whose parent_uuid names no descriptor is not in it.
C19_SubControlNeedsParent ==
    calc.fn = "filtered" =>
        \A u \in DOMAIN calc.out :
            calc.out[u].parent_uuid # NoneValue =>
                /\ PassesRule(calc.f, calc.out[u].type, u)
                /\ \E p \in calc.out[u].parent_uuid :
                      /\ p \in DOMAIN calc.in.all
                      /\ calc.in.all[p].parent_uuid = NoneValue
                      /\ PassesRule(calc.f, calc.in.all[p].type, p)

\* C20: on a registry as the builder makes it, a uuid on the uuid blacklist
\* is not in the filtered set when the uuid whitelist is empty; with a uuid
\* whitelist every control that is not on it is dropped, and a top-level
\* control on it whose type passes is kept.
C20_UuidAxis ==
    (calc.fn = "filtered" /\ calc.in.target \in {"push", "poll"}) =>
        \A u \in DOMAIN calc.in.controls :
            /\ (calc.f.uuid_whitelist = {} /\ u \in calc.f.uuid_blacklist) => u \notin DOMAIN calc.out
            /\ (calc.f.uuid_whitelist # {} /\ u \notin calc.f.uuid_whitelist) => u \notin DOMAIN calc.out
            /\ (/\ calc.f.uuid_whitelist # {} /\ u \in calc.f.uuid_whitelist
                /\ calc.in.controls[u].parent_uuid = NoneValue
                /\ PassesRule(calc.f, calc.in.controls[u].type, u)) => u \in DOMAIN calc.out

\* C16: for a payload that is a valid encoding the decompression loop raises
\* nothing and its output is the original: per token the literals, then M
\* bytes copied one at a time from D bytes back, so that D < M repeats the
\* last D bytes.
C16_DecompressGivesOriginal ==
    calc.fn = "decompressed" =>
        /\ ~calc.out.raised
        /\ calc.out.resultStr = Original(calc.input.tokens, calc.input.lastL, calc.input.seed, << >>)

\* a payload has been decompressed whose token copies more bytes than its
\* distance, with a length extension of two bytes
C16_Witness ==
    /\ calc.fn = "decompressed"
    /\ \E i \in DOMAIN calc.input.tokens :
          calc.input.tokens[i].D < calc.input.tokens[i].M /\ calc.input.tokens[i].M >= 274
    /\ Len(calc.out.resultStr) >= 274

\* C11: in a poll cycle a command that fails takes nothing from the others:
\* no exception leaves send_command or the cycle, the semaphore is given back
\* by every command that has ended, and when the cycle is over the command of
\* every uuid that was in grabber_controls at its start has been handed to the
\* session.
C11_SendFailureIsLocal ==
    /\ pcPoller # "backoff"
    /\ \A u \in DOMAIN pollTasks : pollTasks[u].st # "raised"
    /\ semaphore + Cardinality(InFlight) = SemaphoreLimit
    /\ (pcPoller = "sleeping" /\ pollTasks # EmptyDict) =>
          /\ DOMAIN pollTasks = DOMAIN grabber_controls
          /\ \A u \in DOMAIN pollTasks : pollTasks[u].st \in {"done", "failed"}

\* a cycle is over in which one command failed and another one was sent
C11_Witness ==
    /\ pcPoller = "sleeping"
    /\ \E u, v \in DOMAIN pollTasks :
          pollTasks[u].st = "failed" /\ pollTasks[v].st = "done"

\* C10: at most 10 poll commands are in flight at any moment, however many
\* uuids grabber_controls holds.
C10_AtMostTenInFlight == Cardinality(InFlight) <= SemaphoreLimit

\* ten commands are in flight and a further send_command task waits
C10_Witness ==
    /\ Cardinality(InFlight) = SemaphoreLimit
    /\ \E u \in DOMAIN pollTasks : pollTasks[u].st = "created"

\* C21: after the build, every control that is not visualised (of any type)
\* and whose uuid is in the linkC list of a visualised control is a key of the
\* push-eligible set and not of the poll-eligible set, in whatever order the
\* two elements stand in the document.
C21_LinkedControlsArePush ==
    calc.fn = "built" =>
        \A i \in LinkedElems(calc.xml, calc.out.controls) \ VisibleElems(calc.xml) :
            calc.xml[i].U \in DOMAIN calc.out.controls =>
                /\ calc.xml[i].U \in DOMAIN calc.out.websocket_controls
                /\ calc.xml[i].U \notin DOMAIN calc.out.grabber_controls


\* C22: in every reachable state a control that is not visualised and whose
\* type is in SYS_BLACKLIST is not a key of the poll-eligible set, and the
\* poller has no send_command task for it; a visualised control of such a type
\* is a key of the push-eligible set.
C22_SysBlacklistNotPolled ==
    \A u \in DOMAIN controls :
        (controls[u].type \in SYS_BLACKLIST /\ controls[u].parent_uuid = NoneValue) =>
            IF controls[u].visu
            THEN u \in DOMAIN websocket_controls
            ELSE u \notin DOMAIN grabber_controls /\ u \notin DOMAIN pollTasks

\* a poll command is in flight in an installation that has a VirtualTextIn
\* control that is not visualised and one that is
C22_Witness ==
    /\ InFlight # {}
    /\ \E u, v \in DOMAIN controls :
          /\ controls[u].type \in SYS_BLACKLIST /\ ~controls[u].visu
          /\ controls[v].type \in SYS_BLACKLIST /\ controls[v].visu

\* C23: for every writer implementation, a call of initialize() on a writer
\* that is already initialized returns at once, opens no connection and starts
\* no flush task: the writer after the call is the writer before it.
C23_InitializeIdempotent ==
    [][\A c \in Callers :
          (WriterInitialize(c) /\ writer.initialized) =>
              /\ writer' = writer
              /\ frames'[c].pc = "idle"
              /\ frames'[c].result = "returned"]_vars

\* two initialize() calls have returned and the writer holds the one
\* connection (or the one flush task) the first call made
C23_Witness ==
    /\ \A c \in Callers :
          frames[c].op = "initialize" /\ frames[c].pc = "idle" /\ frames[c].result = "returned"
    /\ writer.initialized
    /\ \/ writer.type \in {"udp", "mqtt"} /\ Len(writer.conns) = 1
       \/ writer.type = "tcp" /\ Len(writer.conns) = 1
       \/ writer.type = "execd" /\ writer.flush = "running"

\* the connection in the writer's handle is closed (or there is none) and no
\* flush task is running
Released(w) ==
    /\ w.handle # NoneValue => w.conns[HandleOf(w)] = "closed"
    /\ w.flush \notin {"running", "cancelling"}

\* a step of a close() call of caller c: its start or the end of an await
CloseStep(c) == WriterClose(c) \/ (WriterResume(c) /\ frames[c].op = "close")

\* C24: for every writer implementation close() can be called any number of
\* times, also before initialize(): no step of it raises, each call ends with
\* the writer uninitialized and its connection (or flush task) released, and a
\* call on a writer that is already closed leaves the writer as it was.
C24_CloseIdempotent ==
    [][\A c \in Callers :
          CloseStep(c) =>
              /\ frames'[c].result \in {"none", "returned"}
              /\ frames'[c].pc = "idle" =>
                    /\ frames'[c].result = "returned"
                    /\ ~writer'.initialized
                    /\ Released(writer')
              /\ (~writer.initialized /\ Released(writer)) => writer' = writer]_vars

\* initialize(), close(), close(): both close() calls have returned on a
\* writer that had made its connection (or started its flush task)
C24_Witness ==
    /\ callsMade = 3
    /\ \A c \in Callers :
          frames[c].op = "close" /\ frames[c].pc = "idle" /\ frames[c].result = "returned"
    /\ \/ Len(writer.conns) = 1 /\ writer.conns[1] = "closed"
       \/ writer.type = "execd" /\ writer.flush = "cancelled"

\* the pairs of a batch whose uuid is in no registry
UnknownPairs(message, registries) ==
    {i \in DOMAIN message :
        message[i][1] \notin DOMAIN registries.controls
                             \cup DOMAIN registries.websocket_controls}

\* the batch without these pairs
RECURSIVE KnownPairs(_, _, _)
KnownPairs(message, registries, i) ==
    IF i > Len(message) THEN << >>
    ELSE (IF i \in UnknownPairs(message, registries) THEN << >> ELSE << message[i] >>)
             \o KnownPairs(message, registries, i + 1)

\* C25: a pair of a value-state batch whose uuid is not in controls gets no
\* write and changes no registry, and the handler goes on with the other
\* pairs: the writes, the registries and the way the handler ends are those
\* of the batch without that pair, and the handler does not end with KeyError.
C25_UnknownUuidIsSkipped ==
    lastEvent.kind = "value_states" =>
        LET m == lastEvent.message
            r == ValueStatesLoop(KnownPairs(m, lastEvent.before, 1), 1,
                                 lastEvent.before.controls,
                                 lastEvent.before.websocket_controls,
                                 FormatterPlaces(round_floats), lastEvent.ts, << >>)
        IN /\ lastEvent.writes = r.writes
           /\ lastEvent.raised = r.raised
           /\ lastEvent.raised # "KeyError"
           /\ websocket_controls = r.websocket_controls
           /\ controls = lastEvent.before.controls
           /\ grabber_controls = lastEvent.before.grabber_controls
           /\ \A i \in UnknownPairs(m, lastEvent.before) :
                 /\ m[i][1] \notin DOMAIN websocket_controls
                 /\ \A k \in DOMAIN lastEvent.writes :
                       lastEvent.writes[k].template.uuid # m[i][1]

\* a batch whose second pair has an unknown uuid: the pairs before and after
\* it were written
C25_Witness ==
    /\ lastEvent.kind = "value_states"
    /\ Len(lastEvent.message) = 3
    /\ UnknownPairs(lastEvent.message, lastEvent.before) = {2}
    /\ Len(lastEvent.writes) = 2
    /\ lastEvent.writes[2].template.uuid = lastEvent.message[3][1]

\* C26: every line handed to the writer ends with the nanosecond timestamp
\* taken while its message is handled: the lines of a value-state batch
\* (push path) and the line of a text message (poll path), also when the
\* text message carries no output sub-fields.
C26_EveryLineHasTimestamp ==
    /\ lastEvent.kind = "value_states" =>
          \A k \in DOMAIN lastEvent.writes : lastEvent.writes[k].timestamp = lastEvent.ts
    /\ lastEvent.kind = "text" =>
          \A k \in DOMAIN lastEvent.writes : lastEvent.writes[k].time = Some(lastEvent.ts)

\* C27: with config.general.grabber off, LoxoneGrabber.start returns before
\* its loop, and no send_command task exists in any later state: no poll
\* command is sent.
C27_DisabledPollerSendsNothing ==
    ~grabberEnabled =>
        /\ pcPoller \in {"created", "returned"}
        /\ pollTasks = EmptyDict
        /\ semaphore = SemaphoreLimit

\* polling is off, start has returned, and the bridge has gone on: a message
\* was handled and the session has reconnected
C27_Witness ==
    /\ ~grabberEnabled
    /\ pcPoller = "returned"
    /\ lastEvent.kind # "none"
    /\ reconnects > 0
    /\ grabber_controls # EmptyDict

\* a step of a write() call of caller c: its start or the end of an await
WriteStep(c) == (WriterWrite(c) \/ WriterResume(c)) /\ frames'[c].op = "write"

\* a connection of the writer has become open in this step
ConnectionOpened ==
    \E k \in DOMAIN writer'.conns :
        /\ writer'.conns[k] = "open"
        /\ k \in DOMAIN writer.conns => writer.conns[k] # "open"

\* C28: on the UDP, TCP and MQTT writers a send that fails inside write() is
\* followed, in that same call, by one close() and then one initialize():
\* the step in which the send fails closes the connection the writer holds
\* (or awaits its disconnect), from then on the call sends nothing and never
\* goes back to sending, it ends as soon as initialize() has opened a
\* connection, and when it returns the writer is initialized.
C28_FailedSendReconnectsOnce ==
    [][\A c \in Callers :
          (writer.type \in {"udp", "tcp", "mqtt"} /\ WriteStep(c)) =>
              LET f == frames[c]
                  g == frames'[c]
                  enters == g.ctx = "recover" /\ (f.pc = "idle" \/ f.ctx # "recover")
                  within == f.pc # "idle" /\ f.ctx = "recover"
              IN /\ enters =>
                       (writer.handle # NoneValue =>
                           \/ writer'.conns[HandleOf(writer)] = "closed"
                           \/ g.pc = "mqtt_disconnect")
                 /\ (enters \/ within) =>
                       /\ writer'.out = writer.out
                       /\ (g.pc = "idle" /\ g.result = "returned") => writer'.initialized
                 /\ within =>
                       /\ g.ctx = "recover"
                       /\ g.pc # "tcp_drain"
                       /\ ConnectionOpened => g.pc = "idle"]_vars

\* a write() whose send failed has returned: the connection it found is
\* closed, a second one is open and the writer is initialized
C28_Witness ==
    /\ writer.type \in {"udp", "tcp", "mqtt"}
    /\ \E c \in Callers :
          /\ frames[c].op = "write" /\ frames[c].ctx = "recover"
          /\ frames[c].pc = "idle" /\ frames[c].result = "returned"
    /\ writer.conns = << "closed", "open" >>
    /\ writer.initialized
    /\ writer.out = << >>

\* C29: when every connection is refused (the writer has made no connection),
\* an initialize() of the TCP writer that has ended has given up with a
\* failure after its connect attempts: it has not returned, and the writer is
\* not initialized.
C29_ConnectGivesUpWithFailure ==
    (writer.type = "tcp" /\ writer.conns = << >>) =>
        /\ ~writer.initialized
        /\ \A c \in Callers :
              (frames[c].op = "initialize" /\ frames[c].pc = "idle") =>
                  frames[c].result = "OSError"

\* the record of a point that went to standard output
StdoutLine(point) == [point |-> point, conn |-> NoneValue]

PollerRunning == {"loop", "gathering", "sleeping", "backoff"}

\* C31: the poll loop ends only by cancellation (its flag is set nowhere): a
\* cycle that raised is followed by the backoff and then the loop again, a
\* cycle without error by the sleep and then the loop again; either sleep is
\* left for the next cycle unless the task is cancelled
C31_PollLoopGoesOn ==
    /\ [][/\ pcPoller \in PollerRunning /\ pcPoller' \notin PollerRunning
             => pcPoller' = "cancelled"
          /\ CycleRaises => pcPoller' = "backoff"
          /\ pcPoller = "backoff" /\ pcPoller' # "backoff"
             => pcPoller' \in {"loop", "cancelled"}
          /\ pcPoller = "gathering" /\ pcPoller' # "gathering"
             => pcPoller' \in {"sleeping", "cancelled"}
          /\ pcPoller = "sleeping" /\ pcPoller' # "sleeping"
             => pcPoller' \in {"loop", "cancelled"}]_vars
    /\ (pcPoller \in {"sleeping", "backoff"}) ~> (pcPoller \in {"loop", "cancelled"})

\* a cycle has raised and the loop is in its backoff, the process running
C31_Witness == pcPoller = "backoff" /\ proc.pc = "waiting"

RECURSIVE LinkClosure(_, _)
LinkClosure(xml, seen) ==
    LET more == seen \cup UNION {xml[i].linkC : i \in {j \in DOMAIN xml : xml[j].U \in seen}}
    IN IF more = seen THEN seen ELSE LinkClosure(xml, more)

\* C33: after the build, every control that is flagged visible or is reached
\* from a flagged control through one or more linkC lists is a key of the
\* push-eligible set and not of the poll-eligible set.
C33_LinkChainIsVisible ==
    calc.fn = "built" =>
        \A i \in DOMAIN calc.xml :
            calc.xml[i].U \in LinkClosure(calc.xml, {calc.xml[j].U : j \in VisibleElems(calc.xml)})
                => /\ calc.xml[i].U \in DOMAIN calc.out.websocket_controls
                   /\ calc.xml[i].U \notin DOMAIN calc.out.grabber_controls

\* the same for one link only: a control in the linkC list of a flagged control
C33_DirectLinkIsVisible ==
    calc.fn = "built" =>
        \A i \in LinkedElems(calc.xml, calc.out.controls) \cup VisibleElems(calc.xml) :
            /\ calc.xml[i].U \in DOMAIN calc.out.websocket_controls
            /\ calc.xml[i].U \notin DOMAIN calc.out.grabber_controls

\* C34: in every reachable state every key of websocket_controls passes the
\* configured push filter, and no push-path write of a value-state batch is
\* made from the descriptor of a control that the filter excludes.
C34_PushSubscribedPassesFilter ==
    /\ \A u \in DOMAIN websocket_controls : should_include(push_filter, controls, u)
    /\ lastEvent.kind = "value_states" =>
          \A i \in DOMAIN lastEvent.writes :
              ~\E u \in DOMAIN controls :
                  /\ ~should_include(push_filter, controls, u)
                  /\ lastEvent.writes[i].template = controls[u].point_websocket

\* C35: in every reachable state the stored Point (pointInflux) of every
\* poll-subscribed descriptor is the template the build made, and the line of
\* a text message carries no field but "Default" and the outputs of that
\* message and no timestamp but the one of that message.
C35_PollTemplateUnchanged ==
    /\ \A u \in DOMAIN grabber_controls :
          points[builtFrom][u] = NewPoint(grabber_controls[u].fieldkey)
    /\ lastEvent.kind = "text" =>
          \A k \in DOMAIN lastEvent.writes :
              /\ DOMAIN lastEvent.writes[k].fields \subseteq
                    {"Default"} \cup {OutputFieldName(lastEvent.message[1][2].outputs[i]) :
                                         i \in DOMAIN lastEvent.message[1][2].outputs}
              /\ lastEvent.writes[k].time \in {NoneValue, Some(lastEvent.ts)}

\* the line of a text message carries a timestamp taken before that message
C35_StaleLine ==
    /\ lastEvent.kind = "text"
    /\ \E k \in DOMAIN lastEvent.writes :
          /\ lastEvent.writes[k].time # NoneValue
          /\ lastEvent.writes[k].time # Some(lastEvent.ts)

\* the connections the writer has opened and not closed
OpenConns(w) == {c \in DOMAIN w.conns : w.conns[c] = "open"}

\* C36: in every reachable state, with write calls running concurrently, the
\* writer has at most one open connection, and every open connection is the
\* one in its handle: none was left open when the handle was replaced.
C36_AtMostOneOpenConnection ==
    /\ Cardinality(OpenConns(writer)) <= 1
    /\ \A c \in OpenConns(writer) : writer.handle = Some(c)

\* two write calls on a Stream writer, and two connections open
C36_TwoWritesTwoConnections ==
    /\ writer.type = "tcp"
    /\ \A c \in Callers : frames[c].op = "write"
    /\ callsMade = 2
    /\ Cardinality(OpenConns(writer)) = 2

\* C37: in every reachable state a Stream writer whose _initialized flag is
\* set holds a connection in its handle, and that connection is open.
C37_InitializedHasConnection ==
    (writer.type = "tcp" /\ writer.initialized) =>
        /\ writer.handle # NoneValue
        /\ writer.conns[HandleOf(writer)] = "open"

\* caller c has closed the writer and caller d has made no call: the close
\* is the last call made on the writer
ClosedLast(c, d) ==
    /\ c # d
    /\ frames[c].op = "close"
    /\ frames[c].pc = "idle"
    /\ frames[c].result = "returned"
    /\ frames[d].op = "none"

C38_SentAfterClose ==
    \E c, d \in Callers :
        /\ c # d
        /\ frames[c].op = "close" /\ frames[c].result = "returned"
        /\ frames[d].op = "write" /\ frames[d].pc = "idle"
        /\ callsMade = 2
        /\ writer.type = "tcp"
        /\ OpenConns(writer) # {}
        /\ writer.out # << >>

\* the ways a config fetch + build task ends with an exception
FailedPc == {"TypeError", "Exception"}

\* C39: the step in which a config fetch + build task created by
\* udpate_controls fails leaves the three registries as they are, and as long
\* as no such task has completed the bridge routes and polls with the
\* registries of the first build: controls and grabber_controls are exactly
\* those, websocket_controls holds every descriptor of the first build.
C39_FailedRebuildKeepsRegistries ==
    /\ [][\A t \in GatherIds \ {0} :
             (gatherPc[t] \notin FailedPc /\ gatherPc'[t] \in FailedPc)
                => Registries' = Registries]_vars
    /\ []((gatherPc[0] = "done" /\ \A t \in GatherIds \ {0} : gatherPc[t] # "done") =>
             \E doc \in gatherDoc[0] :
                 LET first == BuildRegistries(doc)
                 IN /\ controls = first.controls
                    /\ grabber_controls = first.grabber_controls
                    /\ \A u \in DOMAIN first.websocket_controls :
                          /\ u \in DOMAIN websocket_controls
                          /\ websocket_controls[u] = first.websocket_controls[u])

\* a rebuild has failed, the session is connected again, a value-state batch
\* has been written and a poll cycle is under way
C39_Witness ==
    /\ \E t \in GatherIds \ {0} : gatherPc[t] \in FailedPc
    /\ reconnects > 0
    /\ wsState = "CONNECTED"
    /\ lastEvent.kind = "value_states"
    /\ lastEvent.writes # << >>
    /\ InFlight # {}

\* the shutdown signal has been received and the session has been stopped
StoppedAfterSignal == proc.pc # "waiting" /\ proc.stops > 0 /\ wsState = "STOPPED"

\* C40: once the shutdown signal has been received and the session has been
\* stopped, no send_command task hands a poll command to the session, and the
\* poll loop is no longer running: it was cancelled before or together with
\* the stop of the session.
C40_NoPollAfterShutdown ==
    /\ [][StoppedAfterSignal => ~\E u \in DOMAIN pollTasks : SendCommandAcquire(u)]_vars
    /\ [](StoppedAfterSignal => pcPoller \notin {"loop", "gathering", "sleeping", "backoff"})

\* the same for the send_command tasks that had to wait for the semaphore:
\* they go on when an earlier command returns, whenever that is
C40_NoWaiterSendsAfterShutdown ==
    [][StoppedAfterSignal =>
          ~\E u \in DOMAIN pollTasks :
              pollTasks[u].pos > SemaphoreLimit /\ SendCommandAcquire(u)]_vars

====
